---- MODULE Spec2Model ----
(***************************************************************************)
(* A model of permissions-core: the PermissionService evaluation engine,   *)
(* the TTL CacheService it memoizes into, and the VersionHandler gate that *)
(* validates a permission document before the engine trusts it.            *)
(*                                                                         *)
(* JavaScript values are modelled as tagged records so that the code's     *)
(* typeof / Array.isArray / truthiness tests can be translated:            *)
(*    Obj(f)  an object whose own properties are the function f            *)
(*    Arr(S)  an array of strings, by the set of its elements (the code    *)
(*            only ever tests membership with Array.includes)              *)
(*    Str(s)  a string where an object was expected                        *)
(*    Undefined, Null                                                      *)
(* Strings that the code tests for truthiness are plain TLA+ strings, the  *)
(* empty string standing for a missing or empty value (both are falsy).    *)
(***************************************************************************)
EXTENDS Integers, Sequences, FiniteSets, TLC

VARIABLES
    permissionMatrix,   \* PermissionService.permissionMatrix
    version,            \* PermissionService.version
    isLoaded,           \* PermissionService.isLoaded
    cache,              \* CacheService.cache: key -> [value, expiresAt]
    hasCache,           \* whether PermissionService.cache is defined
    cleanupInterval,    \* whether CacheService.cleanupInterval holds a running timer
    peer,               \* permissionMatrix, version and isLoaded of a second
                        \* PermissionService built on the same CacheService
    loggingMode,        \* PermissionService.loggingConfig.mode
    sinkEnabled,        \* what PermissionService.sink.isEnabled() answers
    sinkThrows,         \* whether PermissionService.sink.emit(event) throws
    ret                 \* the last public call: its name, arguments, returned value
                        \* and the events it handed to the sink

vars == <<permissionMatrix, version, isLoaded, cache, hasCache, loggingMode,
          sinkEnabled, sinkThrows, cleanupInterval, peer, ret>>

-----------------------------------------------------------------------------
(* The clock                                                              *)

\* Time is kept relative to the present: Date.now() reads now, and a clock
\* tick moves the stored expiry times instead (see AdvanceClock).
now == 0

-----------------------------------------------------------------------------
(* Bounds of the model                                                     *)

\* the time-to-live the cache is constructed with, in clock ticks
DefaultTtl == 1
\* calls that would leave more entries than this in the cache are not explored
MaxCacheSize == 2

-----------------------------------------------------------------------------
(* JavaScript values                                                       *)

Obj(f) == [kind |-> "object", fields |-> f]
Arr(S) == [kind |-> "array", items |-> S]
Str(s) == [kind |-> "string", str |-> s]
Undefined == [kind |-> "undefined"]
Null == [kind |-> "null"]
EmptyObject == Obj(<<>>)

\* value.name, undefined when the value has no such property
Prop(value, name) ==
    IF value.kind = "object" /\ name \in DOMAIN value.fields
    THEN value.fields[name]
    ELSE Undefined

\* !value for the tagged values
Falsy(value) ==
    \/ value.kind \in {"undefined", "null"}
    \/ value.kind = "string" /\ value.str = ""

Min(a, b) == IF a <= b THEN a ELSE b

-----------------------------------------------------------------------------
(* types/constants.ts                                                      *)

ROLES == [SUPER_ADMIN |-> "super_admin", SITE_ADMIN |-> "site_admin",
          ADMIN |-> "admin", RESEARCH_ASSISTANT |-> "research_assistant",
          PARTICIPANT |-> "participant"]
RESOURCES == [GROUPS |-> "groups", ASSIGNMENTS |-> "assignments",
              USERS |-> "users", ADMINS |-> "admins", TASKS |-> "tasks"]
ALL_ROLES == {"super_admin", "site_admin", "admin", "research_assistant", "participant"}
ALL_RESOURCES == {"groups", "assignments", "users", "admins", "tasks"}
ALL_ACTIONS == {"create", "read", "update", "delete", "exclude"}
FLAT_RESOURCES == <<"assignments", "users", "tasks">>
ALL_GROUP_SUB_RESOURCES == <<"sites", "schools", "classes", "cohorts">>
ALL_ADMIN_SUB_RESOURCES == <<"site_admin", "admin", "research_assistant">>

Range(seq) == {seq[i] : i \in DOMAIN seq}

-----------------------------------------------------------------------------
(* Strings: character codes, comparison, base64                            *)

Lower == "abcdefghijklmnopqrstuvwxyz"
Upper == "ABCDEFGHIJKLMNOPQRSTUVWXYZ"
Digits == "0123456789"
Base64Alphabet == Upper \o Lower \o Digits \o "+/"

CharAt(s, i) == SubSeq(s, i, i)

\* the UTF-16 code unit of a one-character string
CharCodes ==
    {<<CharAt(Lower, i), 96 + i>> : i \in 1..26}
    \cup {<<CharAt(Upper, i), 64 + i>> : i \in 1..26}
    \cup {<<CharAt(Digits, i), 47 + i>> : i \in 1..10}
    \cup {<<"*", 42>>, <<"+", 43>>, <<"-", 45>>, <<"/", 47>>, <<":", 58>>,
          <<"=", 61>>, <<"_", 95>>, <<"|", 124>>}
CharCodeOf ==
    [c \in {p[1] : p \in CharCodes} |-> (CHOOSE p \in CharCodes : p[1] = c)[2]]
CharCode(c) == CharCodeOf[c]

\* a < b in the order of Array.prototype.sort() without a comparator
RECURSIVE StringLess(_, _)
StringLess(a, b) ==
    IF Len(b) = 0 THEN FALSE
    ELSE IF Len(a) = 0 THEN TRUE
    ELSE IF CharAt(a, 1) = CharAt(b, 1)
         THEN StringLess(SubSeq(a, 2, Len(a)), SubSeq(b, 2, Len(b)))
         ELSE CharCode(CharAt(a, 1)) < CharCode(CharAt(b, 1))

RECURSIVE Insert(_, _)
Insert(s, sorted) ==
    IF sorted = <<>> THEN <<s>>
    ELSE IF StringLess(Head(sorted), s)
         THEN <<Head(sorted)>> \o Insert(s, Tail(sorted))
         ELSE <<s>> \o sorted

\* strings.sort()
RECURSIVE Sort(_)
Sort(strings) ==
    IF strings = <<>> THEN <<>> ELSE Insert(Head(strings), Sort(Tail(strings)))

\* strings.join(sep)
RECURSIVE Join(_, _)
Join(strings, sep) ==
    IF strings = <<>> THEN ""
    ELSE IF Len(strings) = 1 THEN strings[1]
    ELSE strings[1] \o sep \o Join(Tail(strings), sep)

Base64Char(n) == CharAt(Base64Alphabet, n + 1)

\* btoa(s)
RECURSIVE Btoa(_)
Btoa(s) ==
    IF Len(s) = 0 THEN ""
    ELSE LET b1 == CharCode(CharAt(s, 1)) IN
      IF Len(s) = 1
      THEN Base64Char(b1 \div 4) \o Base64Char((b1 % 4) * 16) \o "=="
      ELSE LET b2 == CharCode(CharAt(s, 2)) IN
        IF Len(s) = 2
        THEN Base64Char(b1 \div 4) \o Base64Char((b1 % 4) * 16 + b2 \div 16)
             \o Base64Char((b2 % 16) * 4) \o "="
        ELSE LET b3 == CharCode(CharAt(s, 3)) IN
             Base64Char(b1 \div 4) \o Base64Char((b1 % 4) * 16 + b2 \div 16)
             \o Base64Char((b2 % 16) * 4 + b3 \div 64) \o Base64Char(b3 % 64)
             \o Btoa(SubSeq(s, 4, Len(s)))

AlphaNumerics == {CharAt(Base64Alphabet, i) : i \in 1..Len(Base64Alphabet) - 2}
IsAlphaNumeric(c) == c \in AlphaNumerics

\* s.replace(/[^a-zA-Z0-9]/g, '')
RECURSIVE StripNonAlphaNumeric(_)
StripNonAlphaNumeric(s) ==
    IF Len(s) = 0 THEN ""
    ELSE (IF IsAlphaNumeric(CharAt(s, 1)) THEN CharAt(s, 1) ELSE "")
         \o StripNonAlphaNumeric(SubSeq(s, 2, Len(s)))

\* s.substring(0, n)
Substring0(s, n) == SubSeq(s, 1, Min(n, Len(s)))

\* s.startsWith(prefix)
StartsWith(s, prefix) ==
    Len(prefix) <= Len(s) /\ SubSeq(s, 1, Len(prefix)) = prefix

-----------------------------------------------------------------------------
(* CacheService (services/cacheService.ts), as operators on the entry map  *)
(* c and the clock value t that Date.now() returns                         *)

\* a cached value: a boolean decision, or the result list of a batch
Bool(b) == [kind |-> "boolean", bool |-> b]
List(items) == [kind |-> "list", items |-> items]

Remove(c, keys) == [k \in DOMAIN c \ keys |-> c[k]]

\* get(key): the value or null, and the map with an expired entry deleted
CacheGet(c, key, t) ==
    IF key = "" THEN [value |-> Null, cache |-> c]
    ELSE IF key \notin DOMAIN c THEN [value |-> Null, cache |-> c]
    ELSE IF t > c[key].expiresAt THEN [value |-> Null, cache |-> Remove(c, {key})]
    ELSE [value |-> c[key].value, cache |-> c]

\* a variant that stores truthy values only
CacheSetTruthyOnly(c, key, value, t) ==
    IF key = "" \/ value = Bool(FALSE) THEN c
    ELSE [k \in DOMAIN c \cup {key} |->
            IF k = key THEN [value |-> value, expiresAt |-> t + DefaultTtl]
            ELSE c[k]]

\* set(key, value): options are never passed by the engine, so ttl = defaultTtl
CacheSet(c, key, value, t) ==
    IF key = "" THEN c
    ELSE [k \in DOMAIN c \cup {key} |->
            IF k = key THEN [value |-> value, expiresAt |-> t + DefaultTtl]
            ELSE c[k]]

\* a variant whose entries expire one tick early
CacheSetWithOptionsShortLived(c, key, value, options, t) ==
    IF key = "" THEN c
    ELSE LET ttl == IF options = <<>> THEN DefaultTtl ELSE options[1] IN
         [k \in DOMAIN c \cup {key} |->
            IF k = key THEN [value |-> value, expiresAt |-> t + ttl - 1]
            ELSE c[k]]

\* set(key, value, options?) as a host calls it: options is <<>> or <<ttl>>,
\* ttl = options?.ttl ?? this.defaultTtl
CacheSetWithOptions(c, key, value, options, t) ==
    IF key = "" THEN c
    ELSE LET ttl == IF options = <<>> THEN DefaultTtl ELSE options[1] IN
         [k \in DOMAIN c \cup {key} |->
            IF k = key THEN [value |-> value, expiresAt |-> t + ttl]
            ELSE c[k]]

\* clear()
CacheClear == <<>>

\* a variant that matches the userId as a prefix without the hyphen
CacheClearUserAnyPrefix(c, userId) ==
    IF userId = "" THEN c
    ELSE Remove(c, {key \in DOMAIN c : StartsWith(key, userId)})

\* clearUser(userId)
CacheClearUser(c, userId) ==
    IF userId = "" THEN c
    ELSE Remove(c, {key \in DOMAIN c : StartsWith(key, userId \o "-") \/ key = userId})

generatePermissionKey(userId, siteId, resource, action, subResource) ==
    IF userId = "" \/ siteId = "" \/ resource = "" \/ action = "" THEN ""
    ELSE IF subResource # ""
         THEN userId \o "-" \o siteId \o "-" \o resource \o "-" \o subResource \o "-" \o action
         ELSE userId \o "-" \o siteId \o "-" \o resource \o "-" \o action

generateBulkPermissionKey(userId, siteId, checkHash) ==
    IF userId = "" \/ siteId = "" \/ checkHash = "" THEN ""
    ELSE userId \o "-" \o siteId \o "-bulk-" \o checkHash

\* a variant of the sweep that also deletes what expires at this very instant
CacheCleanupExpiredEntriesEager(c, t) ==
    Remove(c, {key \in DOMAIN c : t >= c[key].expiresAt})

\* a variant of the sweep that deletes nothing
CacheCleanupExpiredEntriesIdle(c, t) == c

\* cleanupExpiredEntries(): the periodic sweep
CacheCleanupExpiredEntries(c, t) ==
    Remove(c, {key \in DOMAIN c : t > c[key].expiresAt})

\* has(key): whether a live entry exists, and the map with an expired entry deleted
CacheHas(c, key, t) ==
    IF key = "" THEN [found |-> FALSE, cache |-> c]
    ELSE IF key \notin DOMAIN c THEN [found |-> FALSE, cache |-> c]
    ELSE IF t > c[key].expiresAt THEN [found |-> FALSE, cache |-> Remove(c, {key})]
    ELSE [found |-> TRUE, cache |-> c]

-----------------------------------------------------------------------------
(* Permission documents the host submits                                   *)

Groups(sites, schools, classes, cohorts) ==
    Obj([sites |-> Arr(sites), schools |-> Arr(schools),
         classes |-> Arr(classes), cohorts |-> Arr(cohorts)])
Admins(siteAdmin, admin, researchAssistant) ==
    Obj([site_admin |-> Arr(siteAdmin), admin |-> Arr(admin),
         research_assistant |-> Arr(researchAssistant)])
RolePermissions(groups, assignments, users, admins, tasks) ==
    Obj([groups |-> groups, assignments |-> Arr(assignments), users |-> Arr(users),
         admins |-> admins, tasks |-> Arr(tasks)])

Crud == {"create", "read", "update", "delete"}

\* a matrix in the shape of the test suites' validPermissionMatrix
MatrixA ==
    Obj([super_admin |->
            RolePermissions(Groups(ALL_ACTIONS, ALL_ACTIONS, ALL_ACTIONS, ALL_ACTIONS),
                            ALL_ACTIONS, ALL_ACTIONS, Admins(Crud, Crud, Crud), ALL_ACTIONS),
         site_admin |->
            RolePermissions(Groups({"read", "update"}, ALL_ACTIONS, ALL_ACTIONS, ALL_ACTIONS),
                            ALL_ACTIONS, ALL_ACTIONS,
                            Admins({"create", "read"}, ALL_ACTIONS, Crud), ALL_ACTIONS),
         admin |->
            RolePermissions(Groups({"read", "update"}, {"read", "update", "delete"},
                                   {"read", "update", "delete"}, {"read", "update", "delete"}),
                            Crud, {"create", "read", "update"},
                            Admins({"read"}, {"read"}, {"create", "read"}), {"read"}),
         research_assistant |->
            RolePermissions(Groups({"read"}, {"read"}, {"read"}, {"read"}),
                            {"read"}, {"read"},
                            Admins({"read"}, {"read"}, {"read"}), {"read"}),
         participant |->
            RolePermissions(Groups({}, {}, {}, {}), {}, {}, Admins({}, {}, {}), {})])

\* a republished matrix: no site_admin row, a partial groups object for admin
\* (the shape of the round-trip example), a super_admin row that grants less
MatrixB ==
    Obj([super_admin |->
            RolePermissions(Groups(Crud, {"read"}, Crud, Crud),
                            Crud, {"read", "update"}, Admins(Crud, {"read"}, Crud), Crud),
         admin |->
            Obj([groups |-> Obj([schools |-> Arr({"read", "create"})]),
                 users |-> Arr({"read"})]),
         research_assistant |->
            RolePermissions(Groups({}, {"create"}, {}, {}),
                            {}, {"create", "read"}, Admins({}, {}, {}), {})])

Document(permissions, ver, updatedAt) ==
    Obj([permissions |-> permissions, version |-> ver, updatedAt |-> updatedAt])

ValidDocumentA == Document(MatrixA, "1.1.0", "2025-01-01T00:00:00Z")
ValidDocumentB == Document(MatrixB, "1.1.0", "2025-09-29T00:00:00Z")
\* { invalid: 'document' }
MissingFieldsDocument == Obj([invalid |-> "document"])
\* { permissions: 'invalid', version: '1.1.0' }
StringPermissionsDocument == Obj([permissions |-> Str("invalid"), version |-> "1.1.0"])
IncompatibleDocument == Document(MatrixA, "2.0.0", "2025-01-01T00:00:00Z")
InvalidRoleDocument ==
    Document(Obj([invalid_role |-> Obj([users |-> Arr({"read"})])]),
             "1.1.0", "2025-01-01T00:00:00Z")
InvalidActionDocument ==
    Document(Obj([admin |-> Obj([users |-> Arr({"read", "invalid_action"})])]),
             "1.1.0", "2025-01-01T00:00:00Z")

Documents ==
    {ValidDocumentA, ValidDocumentB, Null, MissingFieldsDocument,
     StringPermissionsDocument, IncompatibleDocument, InvalidRoleDocument,
     InvalidActionDocument}

\* document.version / document.updatedAt, "" when the property is missing
StringProp(value, name) ==
    IF value.kind = "object" /\ name \in DOMAIN value.fields
    THEN value.fields[name]
    ELSE ""

-----------------------------------------------------------------------------
(* VersionHandler (utils/versionHandler.ts)                                *)

CURRENT_VERSION == "1.1.0"
SUPPORTED_VERSIONS == {"1.1.0"}
COMPATIBLE_VERSIONS == {"1.1.0"}

\* an enumeration of a set of error strings, in some fixed order
RECURSIVE SetToSeq(_)
SetToSeq(S) ==
    IF S = {} THEN <<>>
    ELSE LET x == CHOOSE y \in S : TRUE IN <<x>> \o SetToSeq(S \ {x})

checkCompatibility(ver) ==
    LET isCompatible == ver \in COMPATIBLE_VERSIONS IN
    [isCompatible |-> isCompatible,
     requiresMigration |-> ver \notin SUPPORTED_VERSIONS /\ isCompatible,
     supportedVersions |-> SUPPORTED_VERSIONS,
     currentVersion |-> CURRENT_VERSION]

\* a variant that returns at the first missing property
validatePermissionDocumentFirstError(document) ==
    IF document.kind # "object"
    THEN [isValid |-> FALSE, errors |-> <<"Permission document must be an object">>]
    ELSE IF Falsy(Prop(document, "permissions"))
    THEN [isValid |-> FALSE, errors |-> <<"Missing permissions property">>]
    ELSE IF StringProp(document, "version") = ""
    THEN [isValid |-> FALSE, errors |-> <<"Missing version property">>]
    ELSE IF StringProp(document, "updatedAt") = ""
    THEN [isValid |-> FALSE, errors |-> <<"Missing updatedAt property">>]
    ELSE IF Prop(document, "permissions").kind \notin {"object", "array"}
    THEN [isValid |-> FALSE, errors |-> <<"Permissions must be an object">>]
    ELSE [isValid |-> TRUE, errors |-> <<>>]

validatePermissionDocument(document) ==
    IF document.kind # "object"
    THEN [isValid |-> FALSE, errors |-> <<"Permission document must be an object">>]
    ELSE LET permissions == Prop(document, "permissions")
             errors ==
                (IF Falsy(permissions) THEN <<"Missing permissions property">> ELSE <<>>)
                \o (IF StringProp(document, "version") = ""
                    THEN <<"Missing version property">> ELSE <<>>)
                \o (IF StringProp(document, "updatedAt") = ""
                    THEN <<"Missing updatedAt property">> ELSE <<>>)
                \o (IF ~Falsy(permissions) /\ permissions.kind \notin {"object", "array"}
                    THEN <<"Permissions must be an object">> ELSE <<>>)
         IN [isValid |-> errors = <<>>, errors |-> errors]

\* the errors of one action array
ActionErrors(actions, where) ==
    IF actions.kind # "array"
    THEN {"Actions for " \o where \o " must be an array"}
    ELSE {"Invalid action: " \o a \o " for " \o where : a \in actions.items \ ALL_ACTIONS}

\* the errors of one resource of one role: an action array for a flat resource,
\* an object of action arrays keyed by sub-resource for groups and admins
ResourceErrors(role, resource, permissions) ==
    IF resource \notin ALL_RESOURCES
    THEN {"Invalid resource: " \o resource \o " for role " \o role}
    ELSE IF resource \in {RESOURCES.GROUPS, RESOURCES.ADMINS}
    THEN IF permissions.kind # "object"
         THEN {"Permissions for " \o role \o "." \o resource \o " must be an object"}
         ELSE LET subResources ==
                    IF resource = RESOURCES.GROUPS THEN Range(ALL_GROUP_SUB_RESOURCES)
                    ELSE Range(ALL_ADMIN_SUB_RESOURCES)
              IN UNION {IF sub \notin subResources
                        THEN {"Invalid sub-resource: " \o sub \o " for " \o role \o "." \o resource}
                        ELSE ActionErrors(permissions.fields[sub],
                                          role \o "." \o resource \o "." \o sub)
                        : sub \in DOMAIN permissions.fields}
    ELSE ActionErrors(permissions, role \o "." \o resource)

validatePermissionMatrix(matrix) ==
    IF matrix.kind # "object"
    THEN [isValid |-> FALSE, errors |-> <<"Permission matrix must be an object">>]
    ELSE LET RoleErrors(role) ==
                IF role \notin ALL_ROLES THEN {"Invalid role: " \o role}
                ELSE IF matrix.fields[role].kind # "object"
                THEN {"Role " \o role \o " must have resources object"}
                ELSE UNION {ResourceErrors(role, resource, matrix.fields[role].fields[resource])
                            : resource \in DOMAIN matrix.fields[role].fields}
             errors == SetToSeq(UNION {RoleErrors(role) : role \in DOMAIN matrix.fields})
         IN [isValid |-> errors = <<>>, errors |-> errors]

migratePermissionMatrix(matrix, fromVersion) ==
    IF fromVersion \notin COMPATIBLE_VERSIONS
    THEN [success |-> FALSE, migratedMatrix |-> EmptyObject, warnings |-> <<>>,
          errors |-> <<"Unsupported version for migration: " \o fromVersion>>]
    ELSE LET validation == validatePermissionMatrix(matrix) IN
         IF ~validation.isValid
         THEN [success |-> FALSE, migratedMatrix |-> EmptyObject, warnings |-> <<>>,
               errors |-> validation.errors]
         ELSE [success |-> TRUE, migratedMatrix |-> matrix, warnings |-> <<>>,
               errors |-> <<>>]

\* a failed result carries no permissionMatrix and no version
Failure(errors, warnings) ==
    [success |-> FALSE, permissionMatrix |-> Undefined, version |-> "",
     errors |-> errors, warnings |-> warnings]

\* a variant that stores the matrix of a compatible document unexamined
processPermissionDocumentUnexamined(document) ==
    LET documentValidation == validatePermissionDocument(document) IN
    IF ~documentValidation.isValid THEN Failure(documentValidation.errors, <<>>)
    ELSE
    LET ver == StringProp(document, "version")
        compatibility == checkCompatibility(ver)
    IN
    IF ~compatibility.isCompatible
    THEN Failure(<<"Incompatible version: " \o ver \o ". Supported versions: "
                   \o Join(SetToSeq(compatibility.supportedVersions), ", ")>>, <<>>)
    ELSE [success |-> TRUE, permissionMatrix |-> Prop(document, "permissions"),
          version |-> ver, errors |-> <<>>, warnings |-> <<>>]

processPermissionDocument(document) ==
    LET documentValidation == validatePermissionDocument(document) IN
    IF ~documentValidation.isValid THEN Failure(documentValidation.errors, <<>>)
    ELSE
    LET ver == StringProp(document, "version")
        permissions == Prop(document, "permissions")
        compatibility == checkCompatibility(ver)
    IN
    IF ~compatibility.isCompatible
    THEN Failure(<<"Incompatible version: " \o ver \o ". Supported versions: "
                   \o Join(SetToSeq(compatibility.supportedVersions), ", ")>>, <<>>)
    ELSE IF compatibility.requiresMigration
    THEN LET warnings == <<"Version " \o ver \o " requires migration to " \o CURRENT_VERSION>>
             migrationResult == migratePermissionMatrix(permissions, ver)
         IN IF ~migrationResult.success
            THEN Failure(migrationResult.errors, warnings \o migrationResult.warnings)
            ELSE [success |-> TRUE, permissionMatrix |-> migrationResult.migratedMatrix,
                  version |-> CURRENT_VERSION, errors |-> <<>>,
                  warnings |-> warnings \o migrationResult.warnings]
    ELSE LET matrixValidation == validatePermissionMatrix(permissions) IN
         IF ~matrixValidation.isValid THEN Failure(matrixValidation.errors, <<>>)
         ELSE [success |-> TRUE, permissionMatrix |-> permissions, version |-> ver,
               errors |-> <<>>, warnings |-> <<>>]

-----------------------------------------------------------------------------
(* PermissionService (services/permissionService.ts)                       *)

User(uid, roles) == [kind |-> "object", uid |-> uid, roles |-> roles]
UserRole(siteId, role) == [siteId |-> siteId, role |-> role]

\* a variant that looks at the first assignment only
isSuperAdminFirstRole(user) ==
    IF Falsy(user) THEN FALSE
    ELSE user.roles # <<>> /\ user.roles[1].role = ROLES.SUPER_ADMIN

isSuperAdmin(user) ==
    IF Falsy(user) THEN FALSE
    ELSE \E i \in DOMAIN user.roles : user.roles[i].role = ROLES.SUPER_ADMIN

requiresSubResource(resource) ==
    resource = RESOURCES.GROUPS \/ resource = RESOURCES.ADMINS

\* a variant that lets any sub-resource of a flat resource pass
isValidSubResourceLenient(resource, subResource) ==
    IF resource = RESOURCES.GROUPS THEN subResource \in Range(ALL_GROUP_SUB_RESOURCES)
    ELSE IF resource = RESOURCES.ADMINS THEN subResource \in Range(ALL_ADMIN_SUB_RESOURCES)
    ELSE TRUE

isValidSubResource(resource, subResource) ==
    IF resource = RESOURCES.GROUPS THEN subResource \in Range(ALL_GROUP_SUB_RESOURCES)
    ELSE IF resource = RESOURCES.ADMINS THEN subResource \in Range(ALL_ADMIN_SUB_RESOURCES)
    ELSE FALSE

\* the Action[] the matrix holds for the role, as the set Array.includes tests
getActionsForResource(role, resource, subResource) ==
    LET rolePermissions == Prop(permissionMatrix, role) IN
    IF Falsy(rolePermissions) THEN {}
    ELSE LET resourcePermissions == Prop(rolePermissions, resource) IN
         IF resource = RESOURCES.GROUPS \/ resource = RESOURCES.ADMINS
         THEN IF subResource = "" THEN {}
              ELSE IF resourcePermissions.kind = "object"
              THEN LET actions == Prop(resourcePermissions, subResource) IN
                   IF actions.kind = "array" THEN actions.items ELSE {}
              ELSE {}
         ELSE IF resourcePermissions.kind = "array" THEN resourcePermissions.items
              ELSE {}

\* the first assignment for the site, 0 when there is none
FindSiteRole(user, siteId) ==
    IF \E i \in DOMAIN user.roles : user.roles[i].siteId = siteId
    THEN CHOOSE i \in DOMAIN user.roles :
            /\ user.roles[i].siteId = siteId
            /\ \A j \in 1..(i - 1) : user.roles[j].siteId # siteId
    ELSE 0

\* a variant that takes the last assignment for the site
getUserSiteRoleLast(user, siteId) ==
    IF isSuperAdmin(user) THEN ROLES.SUPER_ADMIN
    ELSE IF \E i \in DOMAIN user.roles : user.roles[i].siteId = siteId
    THEN user.roles[CHOOSE i \in DOMAIN user.roles :
                        /\ user.roles[i].siteId = siteId
                        /\ \A j \in (i + 1)..Len(user.roles) : user.roles[j].siteId # siteId].role
    ELSE ""

\* the role, "" for null
getUserSiteRole(user, siteId) ==
    IF isSuperAdmin(user) THEN ROLES.SUPER_ADMIN
    ELSE LET i == FindSiteRole(user, siteId) IN
         IF i = 0 THEN "" ELSE user.roles[i].role

\* the static hierarchy, lowest role first
ROLE_HIERARCHY ==
    <<ROLES.PARTICIPANT, ROLES.RESEARCH_ASSISTANT, ROLES.ADMIN, ROLES.SITE_ADMIN,
      ROLES.SUPER_ADMIN>>

\* Array.prototype.indexOf: the first position (from 0) or -1
IndexOf(array, element) ==
    IF \E i \in DOMAIN array : array[i] = element
    THEN (CHOOSE i \in DOMAIN array :
            /\ array[i] = element
            /\ \A j \in 1..(i - 1) : array[j] # element) - 1
    ELSE -1

\* a variant that asks for a strictly higher level
hasMinimumRoleStrictlyAbove(userRole, requiredRole) ==
    LET userLevel == IndexOf(ROLE_HIERARCHY, userRole)
        requiredLevel == IndexOf(ROLE_HIERARCHY, requiredRole)
    IN IF userLevel = -1 \/ requiredLevel = -1 THEN FALSE
       ELSE userLevel > requiredLevel

hasMinimumRole(userRole, requiredRole) ==
    LET userLevel == IndexOf(ROLE_HIERARCHY, userRole)
        requiredLevel == IndexOf(ROLE_HIERARCHY, requiredRole)
    IN IF userLevel = -1 \/ requiredLevel = -1 THEN FALSE
       ELSE userLevel >= requiredLevel

RECURSIVE SitesFromLevel(_, _)
\* roles.filter(...).map(siteRole => siteRole.siteId) from a given level up
SitesFromLevel(roles, minLevel) ==
    IF roles = <<>> THEN <<>>
    ELSE (IF IndexOf(ROLE_HIERARCHY, Head(roles).role) >= minLevel
          THEN <<Head(roles).siteId>> ELSE <<>>)
            \o SitesFromLevel(Tail(roles), minLevel)

\* a variant that asks for a level strictly above the minimum
getSitesWithMinRoleStrictlyAbove(user, minRole) ==
    IF isSuperAdmin(user) THEN <<"*">>
    ELSE LET minLevel == IndexOf(ROLE_HIERARCHY, minRole) IN
         IF minLevel = -1 THEN <<>>
         ELSE SitesFromLevel(user.roles, minLevel + 1)

getSitesWithMinRole(user, minRole) ==
    IF isSuperAdmin(user) THEN <<"*">>
    ELSE LET minLevel == IndexOf(ROLE_HIERARCHY, minRole) IN
         IF minLevel = -1 THEN <<>>
         ELSE SitesFromLevel(user.roles, minLevel)

shouldComputeDecisionDetails == loggingMode # "off"

Detail(decision, reason) == [kind |-> "object", decision |-> decision, reason |-> reason]

\* an early return of an evaluation: not allowed, the cache as it is
Closed(c, includeReason, decision, reason) ==
    [allowed |-> FALSE,
     detail |-> IF includeReason THEN Detail(decision, reason) ELSE Undefined,
     cache |-> c]

\* the end of an evaluation that looked the answer up in the matrix
Decided(c, includeReason, allowed) ==
    [allowed |-> allowed,
     detail |-> IF ~includeReason THEN Undefined
                ELSE IF allowed THEN Detail("allow", "ALLOWED")
                ELSE Detail("deny", "NOT_ALLOWED"),
     cache |-> c]

\* a variant that reads a cache hit as a denial
CachedDecisionDenied(c, cacheKey, t) ==
    LET got == CacheGet(c, cacheKey, t) IN
    [allowed |-> FALSE, detail |-> Undefined, cache |-> got.cache]

\* this.cache.get<boolean>(cacheKey) || false. Decision keys and batch keys
\* never coincide (a batch hash is never an action name); a result list read
\* here would be truthy.
CachedDecision(c, cacheKey, t) ==
    LET got == CacheGet(c, cacheKey, t) IN
    [allowed |-> IF got.value.kind = "boolean" THEN got.value.bool
                 ELSE got.value.kind = "list",
     detail |-> Undefined,
     cache |-> got.cache]

\* a variant that consults the cache before it looks at the user's roles
evaluateGlobalActionDetailedCacheFirst(c, t, user, resource, action, subResource, includeReason) ==
    IF ~isLoaded THEN Closed(c, includeReason, "indeterminate", "NOT_LOADED")
    ELSE IF Falsy(user) \/ resource = "" \/ action = ""
    THEN Closed(c, includeReason, "indeterminate", "MISSING_PARAMS")
    ELSE IF requiresSubResource(resource) /\ subResource = ""
    THEN Closed(c, includeReason, "indeterminate", "REQUIRES_SUBRESOURCE")
    ELSE IF subResource # "" /\ ~isValidSubResource(resource, subResource)
    THEN Closed(c, includeReason, "indeterminate", "INVALID_SUBRESOURCE")
    ELSE
    LET cacheKey == IF hasCache
                    THEN generatePermissionKey(user.uid, "*", resource, action, subResource)
                    ELSE ""
        has == CacheHas(c, cacheKey, t)
    IN
    IF cacheKey # "" /\ has.found /\ ~includeReason
    THEN CachedDecision(has.cache, cacheKey, t)
    ELSE IF ~isSuperAdmin(user) THEN Closed(has.cache, includeReason, "deny", "NOT_ALLOWED")
    ELSE LET allowedActions == getActionsForResource(ROLES.SUPER_ADMIN, resource, subResource)
             allowed == action \in allowedActions
         IN Decided(CacheSet(has.cache, cacheKey, Bool(allowed), t), includeReason, allowed)

evaluateGlobalActionDetailed(c, t, user, resource, action, subResource, includeReason) ==
    IF ~isLoaded THEN Closed(c, includeReason, "indeterminate", "NOT_LOADED")
    ELSE IF Falsy(user) \/ resource = "" \/ action = ""
    THEN Closed(c, includeReason, "indeterminate", "MISSING_PARAMS")
    ELSE IF ~isSuperAdmin(user) THEN Closed(c, includeReason, "deny", "NOT_ALLOWED")
    ELSE IF requiresSubResource(resource) /\ subResource = ""
    THEN Closed(c, includeReason, "indeterminate", "REQUIRES_SUBRESOURCE")
    ELSE IF subResource # "" /\ ~isValidSubResource(resource, subResource)
    THEN Closed(c, includeReason, "indeterminate", "INVALID_SUBRESOURCE")
    ELSE
    LET cacheKey == IF hasCache
                    THEN generatePermissionKey(user.uid, "*", resource, action, subResource)
                    ELSE ""
        has == CacheHas(c, cacheKey, t)
    IN
    IF cacheKey # "" /\ has.found /\ ~includeReason
    THEN CachedDecision(has.cache, cacheKey, t)
    ELSE LET allowedActions == getActionsForResource(ROLES.SUPER_ADMIN, resource, subResource)
             allowed == action \in allowedActions
         IN Decided(CacheSet(has.cache, cacheKey, Bool(allowed), t), includeReason, allowed)

evaluateSiteActionDetailed(c, t, user, siteId, resource, action, subResource, includeReason) ==
    IF ~isLoaded THEN Closed(c, includeReason, "indeterminate", "NOT_LOADED")
    ELSE IF Falsy(user) \/ siteId = "" \/ resource = "" \/ action = ""
    THEN Closed(c, includeReason, "indeterminate", "MISSING_PARAMS")
    ELSE IF requiresSubResource(resource) /\ subResource = ""
    THEN Closed(c, includeReason, "indeterminate", "REQUIRES_SUBRESOURCE")
    ELSE IF subResource # "" /\ ~isValidSubResource(resource, subResource)
    THEN Closed(c, includeReason, "indeterminate", "INVALID_SUBRESOURCE")
    ELSE IF isSuperAdmin(user)
    THEN evaluateGlobalActionDetailed(c, t, user, resource, action, subResource, includeReason)
    ELSE
    LET cacheKey == IF hasCache
                    THEN generatePermissionKey(user.uid, siteId, resource, action, subResource)
                    ELSE ""
        has == CacheHas(c, cacheKey, t)
    IN
    IF cacheKey # "" /\ has.found /\ ~includeReason
    THEN CachedDecision(has.cache, cacheKey, t)
    ELSE LET userRole == getUserSiteRole(user, siteId) IN
         IF userRole = ""
         THEN Closed(CacheSet(has.cache, cacheKey, Bool(FALSE), t), includeReason,
                     "deny", "NO_ROLE")
         ELSE LET allowedActions == getActionsForResource(userRole, resource, subResource)
                  allowed == action \in allowedActions
              IN Decided(CacheSet(has.cache, cacheKey, Bool(allowed), t),
                         includeReason, allowed)

buildResourceKey(resource, subResource) ==
    IF resource = "" THEN ""
    ELSE IF subResource # "" THEN resource \o ":" \o subResource ELSE resource

\* the events emitPermissionEvent hands to the sink for one evaluation
emitPermissionEvent(t, detail, user, siteId, resource, action, subResource) ==
    IF Falsy(detail) THEN <<>>
    ELSE <<[decision |-> detail.decision, reason |-> detail.reason, action |-> action,
            resource |-> resource, subResource |-> subResource,
            resourceKey |-> buildResourceKey(resource, subResource),
            siteId |-> siteId,
            userId |-> IF Falsy(user) THEN "" ELSE user.uid,
            timestamp |-> t]>>

\* a variant that calls this.sink.emit(event) outside any try block
emitPermissionEventThrowsUnguarded(detail) ==
    IF Falsy(detail) THEN FALSE ELSE sinkThrows

\* whether an exception leaves emitPermissionEvent: this.sink.emit(event) runs
\* inside try { } catch (error) { console.warn(...) }
emitPermissionEventThrows(detail) ==
    IF Falsy(detail) THEN FALSE
    ELSE LET emitThrows == sinkThrows
             caught == emitThrows
         IN emitThrows /\ ~caught

\* what a public call yields: the returned value, the cache it leaves, the events
\* handed to the sink
Outcome(value, c, events) == [value |-> value, cache |-> c, events |-> events]

\* an exception that leaves the method in place of a return value
Thrown(error) == [kind |-> "thrown", error |-> error]

\* the evaluation canPerformGlobalAction makes
globalActionEvaluation(c, t, user, resource, action, subResource) ==
    LET includeReason == sinkEnabled /\ shouldComputeDecisionDetails
    IN evaluateGlobalActionDetailed(c, t, user, resource, action, subResource,
                                    includeReason)

\* the evaluation canPerformSiteAction makes
siteActionEvaluation(c, t, user, siteId, resource, action, subResource) ==
    LET includeReason == sinkEnabled /\ shouldComputeDecisionDetails
    IN evaluateSiteActionDetailed(c, t, user, siteId, resource, action, subResource,
                                  includeReason)

\* whether canPerformGlobalAction ends in an exception of the sink instead of
\* returning the value of the operator canPerformGlobalAction
canPerformGlobalActionThrows(c, t, user, resource, action, subResource) ==
    LET evaluation == globalActionEvaluation(c, t, user, resource, action, subResource)
    IN sinkEnabled /\ ~Falsy(evaluation.detail)
       /\ emitPermissionEventThrows(evaluation.detail)

\* whether canPerformSiteAction ends in an exception of the sink instead of
\* returning the value of the operator canPerformSiteAction
canPerformSiteActionThrows(c, t, user, siteId, resource, action, subResource) ==
    LET evaluation == siteActionEvaluation(c, t, user, siteId, resource, action,
                                           subResource)
    IN sinkEnabled /\ ~Falsy(evaluation.detail)
       /\ emitPermissionEventThrows(evaluation.detail)

canPerformGlobalAction(c, t, user, resource, action, subResource) ==
    LET includeReason == sinkEnabled /\ shouldComputeDecisionDetails
        evaluation == evaluateGlobalActionDetailed(c, t, user, resource, action,
                                                   subResource, includeReason)
        events == IF sinkEnabled /\ ~Falsy(evaluation.detail)
                  THEN emitPermissionEvent(t, evaluation.detail, user, "*", resource,
                                           action, subResource)
                  ELSE <<>>
    IN Outcome(evaluation.allowed, evaluation.cache, events)

\* a variant that asks for the reason, and emits it, whatever the sink answers
canPerformSiteActionIgnoringSink(c, t, user, siteId, resource, action, subResource) ==
    LET evaluation == evaluateSiteActionDetailed(c, t, user, siteId, resource, action,
                                                 subResource, shouldComputeDecisionDetails)
    IN Outcome(evaluation.allowed, evaluation.cache,
               emitPermissionEvent(t, evaluation.detail, user, siteId, resource,
                                   action, subResource))

canPerformSiteAction(c, t, user, siteId, resource, action, subResource) ==
    LET includeReason == sinkEnabled /\ shouldComputeDecisionDetails
        evaluation == evaluateSiteActionDetailed(c, t, user, siteId, resource, action,
                                                 subResource, includeReason)
        events == IF sinkEnabled /\ ~Falsy(evaluation.detail)
                  THEN emitPermissionEvent(t, evaluation.detail, user, siteId, resource,
                                           action, subResource)
                  ELSE <<>>
    IN Outcome(evaluation.allowed, evaluation.cache, events)

\* the loop of the getAccessible* methods over its candidates, each a
\* [resource, subResource, item]; the items that pass, in order
RECURSIVE CollectAccessible(_, _, _, _, _, _)
CollectAccessible(c, t, user, siteId, action, candidates) ==
    IF candidates = <<>> THEN Outcome(<<>>, c, <<>>)
    ELSE LET first == Head(candidates)
             check == canPerformSiteAction(c, t, user, siteId, first.resource, action,
                                           first.subResource)
             rest == CollectAccessible(check.cache, t, user, siteId, action,
                                       Tail(candidates))
         IN Outcome((IF check.value THEN <<first.item>> ELSE <<>>) \o rest.value,
                    rest.cache, check.events \o rest.events)

getAccessibleResources(c, t, user, siteId, action) ==
    IF ~isLoaded THEN Outcome(<<>>, c, <<>>)
    ELSE CollectAccessible(c, t, user, siteId, action,
            [i \in DOMAIN FLAT_RESOURCES |->
                [resource |-> FLAT_RESOURCES[i], subResource |-> "",
                 item |-> FLAT_RESOURCES[i]]])

getAccessibleGroupSubResources(c, t, user, siteId, action) ==
    IF ~isLoaded THEN Outcome(<<>>, c, <<>>)
    ELSE CollectAccessible(c, t, user, siteId, action,
            [i \in DOMAIN ALL_GROUP_SUB_RESOURCES |->
                [resource |-> RESOURCES.GROUPS, subResource |-> ALL_GROUP_SUB_RESOURCES[i],
                 item |-> ALL_GROUP_SUB_RESOURCES[i]]])

getAccessibleAdminSubResources(c, t, user, siteId, action) ==
    IF ~isLoaded THEN Outcome(<<>>, c, <<>>)
    ELSE CollectAccessible(c, t, user, siteId, action,
            [i \in DOMAIN ALL_ADMIN_SUB_RESOURCES |->
                [resource |-> RESOURCES.ADMINS, subResource |-> ALL_ADMIN_SUB_RESOURCES[i],
                 item |-> ALL_ADMIN_SUB_RESOURCES[i]]])

Check(resource, action, subResource) ==
    [resource |-> resource, action |-> action, subResource |-> subResource]
Result(check, allowed) ==
    [resource |-> check.resource, action |-> check.action,
     subResource |-> check.subResource, allowed |-> allowed]

generateBulkCheckHash(checks) ==
    LET sortedChecks ==
            Join(Sort([i \in DOMAIN checks |->
                        checks[i].resource
                        \o (IF checks[i].subResource # ""
                            THEN ":" \o checks[i].subResource ELSE "")
                        \o ":" \o checks[i].action]),
                 "|")
    IN Substring0(StripNonAlphaNumeric(Btoa(sortedChecks)), 16)

\* checks.map(check => ({..., allowed: this.canPerformSiteAction(...)}))
RECURSIVE MapChecks(_, _, _, _, _)
MapChecks(c, t, user, siteId, checks) ==
    IF checks = <<>> THEN Outcome(<<>>, c, <<>>)
    ELSE LET check == Head(checks)
             one == canPerformSiteAction(c, t, user, siteId, check.resource,
                                         check.action, check.subResource)
             rest == MapChecks(one.cache, t, user, siteId, Tail(checks))
         IN Outcome(<<Result(check, one.value)>> \o rest.value, rest.cache,
                    one.events \o rest.events)

\* user.uid is read as an argument of this.cache?.generateBulkPermissionKey(...):
\* with a cache the argument is evaluated and a null or undefined user raises
\* a TypeError, without a cache the optional chain skips the arguments
bulkPermissionCheckThrows(user) ==
    isLoaded /\ hasCache /\ user.kind \in {"undefined", "null"}

\* a variant that answers an unloaded engine with the empty list
bulkPermissionCheckEmptyUnloaded(c, t, user, siteId, checks) ==
    IF ~isLoaded THEN Outcome(<<>>, c, <<>>)
    ELSE IF bulkPermissionCheckThrows(user) THEN Outcome(Thrown("TypeError"), c, <<>>)
    ELSE
    LET checkHash == generateBulkCheckHash(checks)
        cacheKey == IF hasCache
                    THEN generateBulkPermissionKey(user.uid, siteId, checkHash)
                    ELSE ""
        has == CacheHas(c, cacheKey, t)
    IN
    IF cacheKey # "" /\ has.found
    THEN LET got == CacheGet(has.cache, cacheKey, t) IN
         Outcome(IF got.value.kind = "list" THEN got.value.items ELSE <<>>,
                 got.cache, <<>>)
    ELSE LET results == MapChecks(has.cache, t, user, siteId, checks) IN
         Outcome(results.value, CacheSet(results.cache, cacheKey, List(results.value), t),
                 results.events)

bulkPermissionCheck(c, t, user, siteId, checks) ==
    IF ~isLoaded
    THEN Outcome([i \in DOMAIN checks |-> Result(checks[i], FALSE)], c, <<>>)
    ELSE IF bulkPermissionCheckThrows(user) THEN Outcome(Thrown("TypeError"), c, <<>>)
    ELSE
    LET checkHash == generateBulkCheckHash(checks)
        cacheKey == IF hasCache
                    THEN generateBulkPermissionKey(user.uid, siteId, checkHash)
                    ELSE ""
        has == CacheHas(c, cacheKey, t)
    IN
    IF cacheKey # "" /\ has.found
    THEN LET got == CacheGet(has.cache, cacheKey, t) IN
         Outcome(IF got.value.kind = "list" THEN got.value.items ELSE <<>>,
                 got.cache, <<>>)
    ELSE LET results == MapChecks(has.cache, t, user, siteId, checks) IN
         Outcome(results.value, CacheSet(results.cache, cacheKey, List(results.value), t),
                 results.events)

\* JSON.parse(JSON.stringify(value)): a value built anew from the text, which
\* leaves out the properties whose value is undefined
RECURSIVE JsonClone(_)
JsonClone(value) ==
    IF value.kind = "object"
    THEN Obj([name \in {n \in DOMAIN value.fields : value.fields[n].kind # "undefined"}
                |-> JsonClone(value.fields[name])])
    ELSE value

\* the engine's own object at a path of this.permissionMatrix, as opposed to
\* a value built for the caller
Reference(path) == [kind |-> "reference", path |-> path]

\* a variant that returns the stored row itself
getRolePermissionsStoredObject(role) ==
    IF ~isLoaded THEN EmptyObject
    ELSE LET rolePermissions == Prop(permissionMatrix, role) IN
         IF Falsy(rolePermissions) THEN EmptyObject ELSE Reference(<<role>>)

getRolePermissions(role) ==
    IF ~isLoaded THEN EmptyObject
    ELSE LET rolePermissions == Prop(permissionMatrix, role) IN
         IF Falsy(rolePermissions) THEN EmptyObject ELSE JsonClone(rolePermissions)

\* a variant that reads a missing sub-resource of a nested resource as "any"
roleHasPermissionAnySub(role, resource, action, subResource) ==
    IF ~isLoaded THEN FALSE
    ELSE IF requiresSubResource(resource) /\ subResource = ""
    THEN \E sub \in Range(ALL_GROUP_SUB_RESOURCES) \cup Range(ALL_ADMIN_SUB_RESOURCES) :
            action \in getActionsForResource(role, resource, sub)
    ELSE IF subResource # "" /\ ~isValidSubResource(resource, subResource) THEN FALSE
    ELSE action \in getActionsForResource(role, resource, subResource)

roleHasPermission(role, resource, action, subResource) ==
    IF ~isLoaded THEN FALSE
    ELSE IF requiresSubResource(resource) /\ subResource = "" THEN FALSE
    ELSE IF subResource # "" /\ ~isValidSubResource(resource, subResource) THEN FALSE
    ELSE action \in getActionsForResource(role, resource, subResource)

\* a variant that deletes the entry stored under the uid itself only
clearUserCacheExactKey(c, userId) == IF hasCache THEN Remove(c, {userId} \cap DOMAIN c) ELSE c

clearUserCache(c, userId) == IF hasCache THEN CacheClearUser(c, userId) ELSE c

clearAllCache(c) == IF hasCache THEN CacheClear ELSE c

getPermissionMatrix == JsonClone(permissionMatrix)
getVersion == version
isPermissionsLoaded == isLoaded

\* a variant that leaves the cache as it is when the new matrix is stored
loadPermissionsKeepingCache(c, document) ==
    LET result == processPermissionDocument(document) IN
    IF ~result.success
    THEN [permissionMatrix |-> permissionMatrix, version |-> version, isLoaded |-> FALSE,
          cache |-> c,
          value |-> [success |-> FALSE, errors |-> result.errors,
                     warnings |-> result.warnings]]
    ELSE [permissionMatrix |-> result.permissionMatrix, version |-> result.version,
          isLoaded |-> TRUE,
          cache |-> c,
          value |-> [success |-> TRUE, errors |-> result.errors,
                     warnings |-> result.warnings]]

\* a variant that drops the stored matrix and version when validation fails
loadPermissionsResetting(c, document) ==
    LET result == processPermissionDocument(document) IN
    IF ~result.success
    THEN [permissionMatrix |-> EmptyObject, version |-> "", isLoaded |-> FALSE,
          cache |-> c,
          value |-> [success |-> FALSE, errors |-> result.errors,
                     warnings |-> result.warnings]]
    ELSE [permissionMatrix |-> result.permissionMatrix, version |-> result.version,
          isLoaded |-> TRUE,
          cache |-> IF hasCache THEN CacheClear ELSE c,
          value |-> [success |-> TRUE, errors |-> result.errors,
                     warnings |-> result.warnings]]

\* the engine's fields and the cache after loadPermissions(document), with the
\* {success, errors, warnings} it returns
loadPermissions(c, document) ==
    LET result == processPermissionDocument(document) IN
    IF ~result.success
    THEN [permissionMatrix |-> permissionMatrix, version |-> version, isLoaded |-> FALSE,
          cache |-> c,
          value |-> [success |-> FALSE, errors |-> result.errors,
                     warnings |-> result.warnings]]
    ELSE [permissionMatrix |-> result.permissionMatrix, version |-> result.version,
          isLoaded |-> TRUE,
          cache |-> IF hasCache THEN CacheClear ELSE c,
          value |-> [success |-> TRUE, errors |-> result.errors,
                     warnings |-> result.warnings]]

-----------------------------------------------------------------------------
(* The callers' inputs                                                     *)

\* a user, the same uid after the host changed the assignments (this list
\* holds two assignments for one site), a user without a role at s1 who has
\* the uid of the super admin, and a super admin whose super_admin assignment
\* is not the first one and who has no assignment for s1
AdminUser == User("u1", <<UserRole("s1", "admin")>>)
ReassignedUser ==
    User("u1", <<UserRole("s1", "research_assistant"), UserRole("s1", "admin")>>)
ParticipantUser == User("u2", <<UserRole("s2", "participant")>>)
SuperAdminUser == User("u2", <<UserRole("s2", "admin"), UserRole("s3", "super_admin")>>)

Users == {AdminUser, ReassignedUser, ParticipantUser, SuperAdminUser}
Sites == {"s1", "s2", "s3"}
Uids == {"u1", "u2"}
RoleNames == {"admin", "super_admin", "participant", "site_admin"}

\* the queries the properties range over: flat and nested resources, with a
\* missing, a valid and an invalid sub-resource
CheckResources == {"users", "groups"}
CheckActions == {"read", "create"}
CheckSubResources == {"", "schools", "admin"}
Checks ==
    {Check(resource, action, subResource) :
        resource \in CheckResources, action \in CheckActions,
        subResource \in CheckSubResources}

UsersCreate == Check("users", "create", "")
GroupsReadSchools == Check("groups", "read", "schools")
GroupsCreateSchools == Check("groups", "create", "schools")
GroupsRead == Check("groups", "read", "")

\* the batches handed to bulkPermissionCheck
Batches ==
    {<<>>, <<GroupsReadSchools>>, <<GroupsCreateSchools>>,
     <<GroupsCreateSchools, GroupsReadSchools>>}

\* the calls the state machine makes
StepDocuments == {ValidDocumentA, ValidDocumentB, MissingFieldsDocument}
StepUsers == {AdminUser, ReassignedUser, SuperAdminUser, ParticipantUser}
StepGlobalUsers == {ParticipantUser, SuperAdminUser}
StepBulkUsers == {AdminUser}
StepSites == {"s1"}
StepChecks == {UsersCreate, GroupsRead}
StepRoles == {"admin"}
StepActions == {"read"}

StepKeyTuples == {<<"u1", "s1-s1", "users", "read", "">>}

StepRolePairs == {<<"site_admin", "site_admin">>, <<"invalid_role", "admin">>}

\* the constructor's arguments: (cacheService given, logging mode, sink enabled)
Constructions == {<<TRUE, "off", FALSE>>, <<FALSE, "off", FALSE>>}

-----
(* The state machine                                                       *)

Init ==
    /\ permissionMatrix = EmptyObject
    /\ version = ""
    /\ isLoaded = FALSE
    /\ cache = CacheClear
    /\ \E construction \in Constructions :
            /\ hasCache = construction[1]
            /\ cleanupInterval = construction[1]
            /\ loggingMode = construction[2]
            /\ sinkEnabled = construction[3]
    /\ sinkThrows = FALSE
    /\ peer = [permissionMatrix |-> EmptyObject, version |-> "", isLoaded |-> FALSE]
    /\ ret = [op |-> "constructor", args |-> <<>>, value |-> Null, events |-> <<>>]

\* a call that leaves the engine's fields alone
Call(op, args, outcome) ==
    /\ cache' = outcome.cache
    /\ Cardinality(DOMAIN cache') <= MaxCacheSize
    /\ ret' = [op |-> op, args |-> args, value |-> outcome.value,
               events |-> outcome.events]
    /\ UNCHANGED <<permissionMatrix, version, isLoaded, hasCache, loggingMode,
                   sinkEnabled, sinkThrows, cleanupInterval, peer>>

LoadPermissions(document) ==
    LET loaded == loadPermissions(cache, document) IN
    /\ permissionMatrix' = loaded.permissionMatrix
    /\ version' = loaded.version
    /\ isLoaded' = loaded.isLoaded
    /\ cache' = loaded.cache
    /\ ret' = [op |-> "loadPermissions", args |-> <<document>>, value |-> loaded.value,
               events |-> <<>>]
    /\ UNCHANGED <<hasCache, loggingMode, sinkEnabled, sinkThrows, cleanupInterval,
                   peer>>

CanPerformGlobalAction(user, check) ==
    LET outcome == canPerformGlobalAction(cache, now, user, check.resource,
                                          check.action, check.subResource)
    IN Call("canPerformGlobalAction", [user |-> user, check |-> check],
            IF canPerformGlobalActionThrows(cache, now, user, check.resource,
                                            check.action, check.subResource)
            THEN Outcome(Thrown("Error"), outcome.cache, outcome.events)
            ELSE outcome)

CanPerformSiteAction(user, siteId, check) ==
    LET outcome == canPerformSiteAction(cache, now, user, siteId, check.resource,
                                        check.action, check.subResource)
    IN Call("canPerformSiteAction", [user |-> user, siteId |-> siteId, check |-> check],
            IF canPerformSiteActionThrows(cache, now, user, siteId, check.resource,
                                          check.action, check.subResource)
            THEN Outcome(Thrown("Error"), outcome.cache, outcome.events)
            ELSE outcome)

BulkPermissionCheck(user, siteId, checks) ==
    Call("bulkPermissionCheck", [user |-> user, siteId |-> siteId, checks |-> checks],
         bulkPermissionCheck(cache, now, user, siteId, checks))

GetAccessibleResources(user, siteId, action) ==
    Call("getAccessibleResources", [user |-> user, siteId |-> siteId, action |-> action],
         getAccessibleResources(cache, now, user, siteId, action))

GetAccessibleGroupSubResources(user, siteId, action) ==
    Call("getAccessibleGroupSubResources",
         [user |-> user, siteId |-> siteId, action |-> action],
         getAccessibleGroupSubResources(cache, now, user, siteId, action))

GetAccessibleAdminSubResources(user, siteId, action) ==
    Call("getAccessibleAdminSubResources",
         [user |-> user, siteId |-> siteId, action |-> action],
         getAccessibleAdminSubResources(cache, now, user, siteId, action))

GetRolePermissions(role) ==
    Call("getRolePermissions", [role |-> role],
         Outcome(getRolePermissions(role), cache, <<>>))

RoleHasPermission(role, check) ==
    Call("roleHasPermission", [role |-> role, check |-> check],
         Outcome(roleHasPermission(role, check.resource, check.action, check.subResource),
                 cache, <<>>))

ClearUserCache(userId) ==
    Call("clearUserCache", [userId |-> userId],
         Outcome(Null, clearUserCache(cache, userId), <<>>))

ClearAllCache ==
    Call("clearAllCache", <<>>, Outcome(Null, clearAllCache(cache), <<>>))

HasMinimumRole(userRole, requiredRole) ==
    Call("hasMinimumRole", <<userRole, requiredRole>>,
         Outcome(hasMinimumRole(userRole, requiredRole), cache, <<>>))

\* the host asks the cache service for a key
GeneratePermissionKey(tuple) ==
    /\ hasCache
    /\ Call("generatePermissionKey", tuple,
            Outcome(generatePermissionKey(tuple[1], tuple[2], tuple[3], tuple[4], tuple[5]),
                    cache, <<>>))

\* the interval timer of the cache fires
CleanupExpiredEntries ==
    /\ hasCache
    /\ cleanupInterval
    /\ Call("cleanupExpiredEntries", <<>>,
            Outcome(Null, CacheCleanupExpiredEntries(cache, now), <<>>))

\* the entries as seen one tick later
Elapse(c) ==
    [key \in DOMAIN c |-> [c[key] EXCEPT !.expiresAt = IF now > @ THEN @ ELSE @ - 1]]

\* one clock tick passes between two calls: every stored expiresAt comes one
\* tick closer to the present, and what has expired stays expired
AdvanceClock ==
    /\ cache' = Elapse(cache)
    /\ ret' = [op |-> "advanceClock", args |-> <<>>, value |-> Null, events |-> <<>>]
    /\ UNCHANGED <<permissionMatrix, version, isLoaded, hasCache, loggingMode,
                   sinkEnabled, sinkThrows, cleanupInterval, peer>>

Next ==
    \/ \E document \in StepDocuments : LoadPermissions(document)
    \/ \E user \in StepGlobalUsers, check \in StepChecks :
            CanPerformGlobalAction(user, check)
    \/ \E user \in StepUsers, siteId \in StepSites, check \in StepChecks :
            CanPerformSiteAction(user, siteId, check)
    \/ \E user \in StepBulkUsers, siteId \in StepSites, checks \in Batches :
            BulkPermissionCheck(user, siteId, checks)
    \/ \E user \in StepBulkUsers, siteId \in StepSites, action \in StepActions :
            GetAccessibleResources(user, siteId, action)
    \/ \E user \in StepBulkUsers, siteId \in StepSites, action \in StepActions :
            GetAccessibleGroupSubResources(user, siteId, action)
    \/ \E user \in StepBulkUsers, siteId \in StepSites, action \in StepActions :
            GetAccessibleAdminSubResources(user, siteId, action)
    \/ \E role \in StepRoles : GetRolePermissions(role)
    \/ \E role \in StepRoles, check \in StepChecks : RoleHasPermission(role, check)
    \/ \E userId \in Uids : ClearUserCache(userId)
    \/ ClearAllCache
    \/ CleanupExpiredEntries
    \/ \E pair \in StepRolePairs : HasMinimumRole(pair[1], pair[2])
    \/ \E tuple \in StepKeyTuples : GeneratePermissionKey(tuple)
    \/ AdvanceClock

Spec == Init /\ [][Next]_vars

-----------------------------------------------------------------------------
(* The functions that read no cache, applied to bounded arguments          *)

\* users for the hierarchy queries: one with three sites, one assigned twice
\* to a site, one whose first role is no role of the hierarchy, one without
\* any assignment
MultiSiteUser ==
    User("u3", <<UserRole("s1", "admin"), UserRole("s2", "research_assistant"),
                 UserRole("s3", "site_admin")>>)
TwiceAssignedUser ==
    User("u4", <<UserRole("s2", "site_admin"), UserRole("s1", "participant"),
                 UserRole("s2", "admin")>>)
UnknownRoleUser == User("u5", <<UserRole("s1", "owner"), UserRole("s2", "admin")>>)
UnassignedUser == User("u6", <<>>)
HierarchyUsers ==
    Users \cup {MultiSiteUser, TwiceAssignedUser, UnknownRoleUser, UnassignedUser}
MinRoles == ALL_ROLES \cup {"invalid_role", ""}

GetSitesWithMinRole(user, minRole) ==
    Call("getSitesWithMinRole", [user |-> user, minRole |-> minRole],
         Outcome(getSitesWithMinRole(user, minRole), cache, <<>>))

\* documents with every subset of the three properties, the permissions a
\* matrix or a string, and documents whose matrix holds a key or a value
\* outside the enumerations
DocumentProperties == {"permissions", "version", "updatedAt"}
PropertyDocument(present, permissions) ==
    Obj([name \in present |->
            IF name = "permissions" THEN permissions
            ELSE IF name = "version" THEN "1.1.0"
            ELSE "2025-01-01T00:00:00Z"])
PropertyDocuments ==
    {PropertyDocument(present, permissions) :
        present \in SUBSET DocumentProperties, permissions \in {MatrixB, Str("invalid")}}
InvalidResourceDocument ==
    Document(Obj([admin |-> Obj([reports |-> Arr({"read"})])]),
             "1.1.0", "2025-01-01T00:00:00Z")
InvalidNestedActionDocument ==
    Document(Obj([admin |-> Obj([groups |-> Obj([schools |-> Arr({"read", "approve"})])])]),
             "1.1.0", "2025-01-01T00:00:00Z")
InvalidSubResourceDocument ==
    Document(Obj([admin |-> Obj([groups |-> Obj([districts |-> Arr({"read"})])])]),
             "1.1.0", "2025-01-01T00:00:00Z")
EmptyVersionDocument == Document(MatrixA, "", "2025-01-01T00:00:00Z")
ProcessedDocuments ==
    Documents \cup PropertyDocuments
        \cup {Undefined, Str("not an object"), InvalidResourceDocument,
              InvalidNestedActionDocument, InvalidSubResourceDocument,
              EmptyVersionDocument}

ValidatePermissionDocument(document) ==
    Call("validatePermissionDocument", [document |-> document],
         Outcome(validatePermissionDocument(document), cache, <<>>))

ProcessPermissionDocument(document) ==
    Call("processPermissionDocument", [document |-> document],
         Outcome(processPermissionDocument(document), cache, <<>>))

NextFunctions ==
    \/ \E user \in HierarchyUsers, minRole \in MinRoles : GetSitesWithMinRole(user, minRole)
    \/ \E document \in ProcessedDocuments : ValidatePermissionDocument(document)
    \/ \E document \in ProcessedDocuments : ProcessPermissionDocument(document)

SpecFunctions == Init /\ [][NextFunctions]_vars

-----------------------------------------------------------------------------
(* The cache service on its own, called by a host                          *)

\* keys (a uid, keys that begin with it, a key that only shares its letters,
\* a missing key), values, and the options of set: none or a ttl
CacheKeys == {"u1", "u1-a", "u12-a", ""}
CacheValues == {Bool(TRUE), Bool(FALSE)}
CacheOptions == {<<>>, <<0>>, <<2>>}

CacheSetCall(key, value, options) ==
    Call("set", [key |-> key, value |-> value, options |-> options],
         Outcome(Null, CacheSetWithOptions(cache, key, value, options, now), <<>>))

CacheGetCall(key) ==
    LET got == CacheGet(cache, key, now) IN
    Call("get", [key |-> key], Outcome(got.value, got.cache, <<>>))

CacheHasCall(key) ==
    LET had == CacheHas(cache, key, now) IN
    Call("has", [key |-> key], Outcome(Bool(had.found), had.cache, <<>>))

CacheClearUserCall(userId) ==
    Call("clearUser", [userId |-> userId], Outcome(Null, CacheClearUser(cache, userId), <<>>))

CacheClearCall == Call("clear", <<>>, Outcome(Null, CacheClear, <<>>))

InitCache == Init /\ hasCache

NextCache ==
    \/ \E key \in CacheKeys, value \in CacheValues, options \in CacheOptions :
            CacheSetCall(key, value, options)
    \/ \E key \in CacheKeys : CacheGetCall(key)
    \/ \E key \in CacheKeys : CacheHasCall(key)
    \/ \E userId \in CacheKeys : CacheClearUserCall(userId)
    \/ CacheClearCall
    \/ CleanupExpiredEntries
    \/ AdvanceClock

SpecCache == InitCache /\ [][NextCache]_vars

\* destroy(): the timer, when one is running, is cleared, and the map is emptied
CacheDestroy ==
    /\ hasCache
    /\ cleanupInterval' = FALSE
    /\ cache' = CacheClear
    /\ ret' = [op |-> "destroy", args |-> <<>>, value |-> Null, events |-> <<>>]
    /\ UNCHANGED <<permissionMatrix, version, isLoaded, hasCache, loggingMode,
                   sinkEnabled, sinkThrows, peer>>

\* the cache service over its whole life, the interval timer firing again and
\* again for as long as it has not been cleared
TimerKeys == {"u1", "u1-a"}
TimerOptions == {<<>>, <<0>>, <<1>>}

NextCacheTimer ==
    \/ \E key \in TimerKeys, options \in TimerOptions :
            CacheSetCall(key, Bool(TRUE), options)
    \/ \E key \in TimerKeys : CacheGetCall(key)
    \/ \E key \in TimerKeys : CacheHasCall(key)
    \/ CleanupExpiredEntries
    \/ CacheDestroy
    \/ AdvanceClock

SpecCacheTimer ==
    InitCache /\ [][NextCacheTimer]_vars /\ WF_vars(CleanupExpiredEntries)

-----------------------------------------------------------------------------
(* The engine with a decision log, under every logging mode and sink       *)

\* the constructor's loggingConfig argument: absent, without a mode, or { mode }
LoggingModes == {"off", "debug"}
LoggingConfigs ==
    {Undefined, EmptyObject} \cup {Obj([mode |-> mode]) : mode \in LoggingModes}

\* the constructor's sink argument: absent, or a sink with what its
\* isEnabled() answers and whether its emit throws
Sink(enabled, throws) == Obj([enabled |-> enabled, throws |-> throws])
NoopPermEventSink == Sink(FALSE, FALSE)
Sinks == {Undefined, Sink(FALSE, FALSE), Sink(TRUE, FALSE), Sink(TRUE, TRUE)}

\* mode: loggingConfig?.mode ?? 'off'
constructorMode(loggingConfig) ==
    IF Falsy(loggingConfig) \/ "mode" \notin DOMAIN loggingConfig.fields THEN "off"
    ELSE loggingConfig.fields.mode

\* this.sink = sink ?? NoopPermEventSink
constructorSink(sink) == IF Falsy(sink) THEN NoopPermEventSink ELSE sink

\* the queries of the logged engine: flat and nested resources, a missing, a
\* valid and an invalid sub-resource, a missing action
LoggingChecks ==
    {Check(resource, action, subResource) :
        resource \in {"users", "groups", "admins"}, action \in {"read", "exclude", ""},
        subResource \in {"", "schools", "admin"}}
LoggingUsers == {AdminUser, ParticipantUser, SuperAdminUser, Null}
LoggingSites == {"s1", "s2", ""}

StepLoggingDocuments == {ValidDocumentA, MissingFieldsDocument}
StepLoggingUsers == {AdminUser, SuperAdminUser, Null}
StepLoggingChecks ==
    {Check("users", "read", ""), Check("groups", "read", ""),
     Check("admins", "read", "schools")}

InitLogging ==
    /\ permissionMatrix = EmptyObject
    /\ version = ""
    /\ isLoaded = FALSE
    /\ cache = CacheClear
    /\ \E cacheService \in BOOLEAN, loggingConfig \in LoggingConfigs, sink \in Sinks :
            /\ hasCache = cacheService
            /\ cleanupInterval = cacheService
            /\ peer = [permissionMatrix |-> EmptyObject, version |-> "", isLoaded |-> FALSE]
            /\ loggingMode = constructorMode(loggingConfig)
            /\ sinkEnabled = constructorSink(sink).fields.enabled
            /\ sinkThrows = constructorSink(sink).fields.throws
            /\ ret = [op |-> "constructor",
                      args |-> [cacheService |-> cacheService,
                                loggingConfig |-> loggingConfig, sink |-> sink],
                      value |-> Null, events |-> <<>>]

NextLogging ==
    \/ \E document \in StepLoggingDocuments : LoadPermissions(document)
    \/ \E user \in StepLoggingUsers, check \in StepLoggingChecks :
            CanPerformGlobalAction(user, check)
    \/ \E user \in StepLoggingUsers, siteId \in StepSites, check \in StepLoggingChecks :
            CanPerformSiteAction(user, siteId, check)
    \/ AdvanceClock

SpecLogging == InitLogging /\ [][NextLogging]_vars

-----------------------------------------------------------------------------
(* The matrix getters, with a host that writes into what they return       *)

\* the value at a path of a tagged value, undefined where the path leaves it
RECURSIVE At(_, _)
At(value, path) ==
    IF path = <<>> THEN value
    ELSE IF value.kind = "object" /\ Head(path) \in DOMAIN value.fields
    THEN At(value.fields[Head(path)], Tail(path))
    ELSE Undefined

\* the value after the assignment value[p1]...[pn] = new
RECURSIVE Assign(_, _, _)
Assign(value, path, new) ==
    IF path = <<>> THEN new
    ELSE Obj([name \in DOMAIN value.fields \cup {Head(path)} |->
                IF name = Head(path)
                THEN Assign(At(value, <<name>>), Tail(path), new)
                ELSE value.fields[name]])

\* the assignments of the host: matrix['admin']['groups'].sites = [], a whole
\* row or resource replaced, an action list replaced by a longer one
MutationPaths ==
    {<<"admin", "groups", "sites">>, <<"admin", "users">>, <<"admin">>,
     <<"groups", "schools">>, <<"users">>}
MutationValues == {Arr({}), Arr(ALL_ACTIONS), EmptyObject}

StepMatrixDocuments == {ValidDocumentA, ValidDocumentB}
StepMatrixRoles == {"admin", "site_admin"}
StepMatrixChecks == {UsersCreate, GroupsReadSchools}

GetPermissionMatrix ==
    Call("getPermissionMatrix", <<>>, Outcome(getPermissionMatrix, cache, <<>>))

\* the host assigns into the object the last getter returned; the
\* assignment reaches the stored matrix only when that object is the
\* engine's own. The objects on the way to the assigned property exist.
MutateReturned(path, new) ==
    /\ ret.op \in {"getPermissionMatrix", "getRolePermissions"}
    /\ LET own == ret.value.kind = "reference"
           returned == IF own THEN At(permissionMatrix, ret.value.path) ELSE ret.value
       IN /\ At(returned, SubSeq(path, 1, Len(path) - 1)).kind = "object"
          /\ permissionMatrix' =
                IF own THEN Assign(permissionMatrix, ret.value.path \o path, new)
                ELSE permissionMatrix
          /\ ret' = [op |-> "mutate",
                     args |-> [returned |-> returned, path |-> path, new |-> new],
                     value |-> Assign(returned, path, new), events |-> <<>>]
    /\ UNCHANGED <<version, isLoaded, cache, hasCache, loggingMode, sinkEnabled,
                   sinkThrows, cleanupInterval, peer>>

NextMatrix ==
    \/ \E document \in StepMatrixDocuments : LoadPermissions(document)
    \/ GetPermissionMatrix
    \/ \E role \in StepMatrixRoles : GetRolePermissions(role)
    \/ \E path \in MutationPaths, new \in MutationValues : MutateReturned(path, new)
    \/ \E check \in StepMatrixChecks : CanPerformSiteAction(AdminUser, "s1", check)

SpecMatrix == Init /\ [][NextMatrix]_vars

-----------------------------------------------------------------------------
(* The cache-backed checks with the clock read twice: has(cacheKey) reads  *)
(* Date.now() at t and get(cacheKey) reads it again lag ticks later        *)

\* how many ticks may pass between the has() test and the get() read
MaxLag == 1
Lags == 0..MaxLag

evaluateGlobalActionDetailedLate(c, t, lag, user, resource, action, subResource, includeReason) ==
    IF ~isLoaded THEN Closed(c, includeReason, "indeterminate", "NOT_LOADED")
    ELSE IF Falsy(user) \/ resource = "" \/ action = ""
    THEN Closed(c, includeReason, "indeterminate", "MISSING_PARAMS")
    ELSE IF ~isSuperAdmin(user) THEN Closed(c, includeReason, "deny", "NOT_ALLOWED")
    ELSE IF requiresSubResource(resource) /\ subResource = ""
    THEN Closed(c, includeReason, "indeterminate", "REQUIRES_SUBRESOURCE")
    ELSE IF subResource # "" /\ ~isValidSubResource(resource, subResource)
    THEN Closed(c, includeReason, "indeterminate", "INVALID_SUBRESOURCE")
    ELSE
    LET cacheKey == IF hasCache
                    THEN generatePermissionKey(user.uid, "*", resource, action, subResource)
                    ELSE ""
        has == CacheHas(c, cacheKey, t)
    IN
    IF cacheKey # "" /\ has.found /\ ~includeReason
    THEN CachedDecision(has.cache, cacheKey, t + lag)
    ELSE LET allowedActions == getActionsForResource(ROLES.SUPER_ADMIN, resource, subResource)
             allowed == action \in allowedActions
         IN Decided(CacheSet(has.cache, cacheKey, Bool(allowed), t), includeReason, allowed)

evaluateSiteActionDetailedLate(c, t, lag, user, siteId, resource, action, subResource, includeReason) ==
    IF ~isLoaded THEN Closed(c, includeReason, "indeterminate", "NOT_LOADED")
    ELSE IF Falsy(user) \/ siteId = "" \/ resource = "" \/ action = ""
    THEN Closed(c, includeReason, "indeterminate", "MISSING_PARAMS")
    ELSE IF requiresSubResource(resource) /\ subResource = ""
    THEN Closed(c, includeReason, "indeterminate", "REQUIRES_SUBRESOURCE")
    ELSE IF subResource # "" /\ ~isValidSubResource(resource, subResource)
    THEN Closed(c, includeReason, "indeterminate", "INVALID_SUBRESOURCE")
    ELSE IF isSuperAdmin(user)
    THEN evaluateGlobalActionDetailedLate(c, t, lag, user, resource, action, subResource,
                                          includeReason)
    ELSE
    LET cacheKey == IF hasCache
                    THEN generatePermissionKey(user.uid, siteId, resource, action, subResource)
                    ELSE ""
        has == CacheHas(c, cacheKey, t)
    IN
    IF cacheKey # "" /\ has.found /\ ~includeReason
    THEN CachedDecision(has.cache, cacheKey, t + lag)
    ELSE LET userRole == getUserSiteRole(user, siteId) IN
         IF userRole = ""
         THEN Closed(CacheSet(has.cache, cacheKey, Bool(FALSE), t), includeReason,
                     "deny", "NO_ROLE")
         ELSE LET allowedActions == getActionsForResource(userRole, resource, subResource)
                  allowed == action \in allowedActions
              IN Decided(CacheSet(has.cache, cacheKey, Bool(allowed), t),
                         includeReason, allowed)

bulkPermissionCheckLate(c, t, lag, user, siteId, checks) ==
    IF ~isLoaded
    THEN Outcome([i \in DOMAIN checks |-> Result(checks[i], FALSE)], c, <<>>)
    ELSE IF bulkPermissionCheckThrows(user) THEN Outcome(Thrown("TypeError"), c, <<>>)
    ELSE
    LET checkHash == generateBulkCheckHash(checks)
        cacheKey == IF hasCache
                    THEN generateBulkPermissionKey(user.uid, siteId, checkHash)
                    ELSE ""
        has == CacheHas(c, cacheKey, t)
    IN
    IF cacheKey # "" /\ has.found
    THEN LET got == CacheGet(has.cache, cacheKey, t + lag) IN
         Outcome(IF got.value.kind = "list" THEN got.value.items ELSE <<>>,
                 got.cache, <<>>)
    ELSE LET results == MapChecks(has.cache, t, user, siteId, checks) IN
         Outcome(results.value, CacheSet(results.cache, cacheKey, List(results.value), t),
                 results.events)

-----------------------------------------------------------------------------
(* Two PermissionService instances built on one CacheService: the calls    *)
(* act on the instance at hand, the other one's fields are kept in peer    *)

StepSharedDocuments == {ValidDocumentA, ValidDocumentB}
StepSharedUsers == {AdminUser}
StepSharedSites == {"s1"}
StepSharedChecks == {UsersCreate, GroupsCreateSchools}

\* the host turns to the other instance; the cache service is the same object
\* for both
TurnToPeer ==
    /\ permissionMatrix' = peer.permissionMatrix
    /\ version' = peer.version
    /\ isLoaded' = peer.isLoaded
    /\ peer' = [permissionMatrix |-> permissionMatrix, version |-> version,
                isLoaded |-> isLoaded]
    /\ ret' = [op |-> "turnToPeer", args |-> <<>>, value |-> Null, events |-> <<>>]
    /\ UNCHANGED <<cache, hasCache, loggingMode, sinkEnabled, sinkThrows, cleanupInterval>>

InitShared == Init /\ hasCache /\ loggingMode = "off"

NextShared ==
    \/ \E document \in StepSharedDocuments : LoadPermissions(document)
    \/ \E user \in StepSharedUsers, siteId \in StepSharedSites, check \in StepSharedChecks :
            CanPerformSiteAction(user, siteId, check)
    \/ TurnToPeer
    \/ AdvanceClock

SpecShared == InitShared /\ [][NextShared]_vars

-----------------------------------------------------------------------------
(* The document the caller submitted, assigned into after the load         *)

\* the object this.permissionMatrix refers to after a successful load:
\* processPermissionDocument hands back document.permissions itself (on the
\* migration path the matrix it was given, cast), and loadPermissions stores
\* what it is handed; nothing on the way copies it
loadPermissionsStoredObject(document) == Reference(<<"permissions">>)

\* the assignments of the caller: an action list of the submitted matrix
\* replaced, a nested one replaced, document.permissions bound to another object
DocumentMutations ==
    {<<path, new>> :
        path \in {<<"permissions", "admin", "users">>,
                  <<"permissions", "admin", "groups", "schools">>},
        new \in {Arr({}), Arr(ALL_ACTIONS)}}
    \cup {<<(<<"permissions">>), MatrixB>>}

\* the caller assigns into the document of the last successful load; the
\* assignment reaches the stored matrix when it lands inside the object the
\* engine holds
MutateDocument(path, new) ==
    /\ ret.op = "loadPermissions" /\ ret.value.success
    /\ LET document == ret.args[1]
           stored == loadPermissionsStoredObject(document)
           own == /\ stored.kind = "reference"
                  /\ Len(path) > Len(stored.path)
                  /\ SubSeq(path, 1, Len(stored.path)) = stored.path
       IN /\ At(document, SubSeq(path, 1, Len(path) - 1)).kind = "object"
          /\ permissionMatrix' =
                IF own
                THEN Assign(permissionMatrix,
                            SubSeq(path, Len(stored.path) + 1, Len(path)), new)
                ELSE permissionMatrix
          /\ ret' = [op |-> "mutateDocument",
                     args |-> [document |-> document, path |-> path, new |-> new],
                     value |-> Assign(document, path, new), events |-> <<>>]
    /\ UNCHANGED <<version, isLoaded, cache, hasCache, loggingMode, sinkEnabled,
                   sinkThrows, cleanupInterval, peer>>

NextDocument ==
    \/ \E document \in StepMatrixDocuments : LoadPermissions(document)
    \/ \E mutation \in DocumentMutations : MutateDocument(mutation[1], mutation[2])
    \/ GetPermissionMatrix
    \/ \E check \in StepMatrixChecks : CanPerformSiteAction(AdminUser, "s1", check)
    \/ \E role \in StepMatrixRoles, check \in StepMatrixChecks : RoleHasPermission(role, check)

SpecDocument == Init /\ [][NextDocument]_vars

-----------------------------------------------------------------------------
(* The engine under loads alone: documents of every kind, in any order     *)

NextLoad == \E document \in ProcessedDocuments : LoadPermissions(document)

SpecLoad == Init /\ [][NextLoad]_vars

-----------------------------------------------------------------------------
(* The checks asked about flat resources, with and without a sub-resource  *)

StepFlatDocuments == {ValidDocumentA, MissingFieldsDocument}
StepFlatUsers == {AdminUser, SuperAdminUser}
StepFlatChecks ==
    {Check("users", "create", "schools"), Check("users", "create", ""),
     Check("tasks", "read", "admin")}

NextFlat ==
    \/ \E document \in StepFlatDocuments : LoadPermissions(document)
    \/ \E user \in StepFlatUsers, check \in StepFlatChecks :
            CanPerformSiteAction(user, "s1", check)
    \/ \E user \in StepFlatUsers, check \in StepFlatChecks :
            CanPerformGlobalAction(user, check)
    \/ \E role \in StepRoles, check \in StepFlatChecks : RoleHasPermission(role, check)
    \/ AdvanceClock

SpecFlat == Init /\ [][NextFlat]_vars

-----------------------------------------------------------------------------
(* Properties                                                              *)

\* what the properties are stated in, read off the arguments and the matrix
\* rather than through the engine's own lookups
HoldsSuperAdmin(user) == \E i \in DOMAIN user.roles : user.roles[i].role = "super_admin"

HasAssignment(user, siteId) == \E i \in DOMAIN user.roles : user.roles[i].siteId = siteId

FirstAssignedRole(user, siteId) ==
    LET assigned == {i \in DOMAIN user.roles : user.roles[i].siteId = siteId} IN
    user.roles[CHOOSE i \in assigned : \A j \in assigned : i <= j].role

FlatNames == {"assignments", "users", "tasks"}
NestedNames == {"groups", "admins"}
SubResourceNames(resource) ==
    IF resource = "groups" THEN {"sites", "schools", "classes", "cohorts"}
    ELSE IF resource = "admins" THEN {"site_admin", "admin", "research_assistant"}
    ELSE {}

\* a flat resource without sub-resource, or a nested one with one of its own
WellFormedQuery(check) ==
    \/ check.resource \in FlatNames /\ check.subResource = ""
    \/ check.resource \in NestedNames
        /\ check.subResource \in SubResourceNames(check.resource)

\* the action set the stored matrix holds for (role, resource[, subResource])
MatrixActionSet(role, check) ==
    IF role \notin DOMAIN permissionMatrix.fields THEN {}
    ELSE LET row == permissionMatrix.fields[role].fields IN
         IF check.resource \notin DOMAIN row THEN {}
         ELSE IF check.subResource = "" THEN row[check.resource].items
         ELSE IF check.subResource \notin DOMAIN row[check.resource].fields THEN {}
         ELSE row[check.resource].fields[check.subResource].items

\* whether the cache holds a live entry under the key of a site query
LiveSiteEntry(user, siteId, check) ==
    /\ hasCache
    /\ CacheHas(cache, generatePermissionKey(user.uid, siteId, check.resource,
                                             check.action, check.subResource),
                now).found

NeverLoaded == version = "" /\ permissionMatrix = EmptyObject

FailedLoad == ret'.op = "loadPermissions" /\ ~ret'.value.success

\* C1: a loadPermissions call whose document fails validation never changes
\* the loaded flag.
C1_FailedLoadKeepsLoadedFlag ==
    [][FailedLoad => isPermissionsLoaded' = isPermissionsLoaded]_vars

\* C2: a loadPermissions call that fails validation leaves the stored matrix
\* and version as they were: getVersion() and getPermissionMatrix() return the
\* same values before and after, whatever the engine's prior state.
C2_FailedLoadKeepsMatrixAndVersion ==
    [][FailedLoad => /\ getVersion' = getVersion
                     /\ getPermissionMatrix' = getPermissionMatrix]_vars

\* a failed load has just returned on an engine that holds a loaded matrix
C2_Witness ==
    /\ ret.op = "loadPermissions"
    /\ ~ret.value.success
    /\ ret.value.errors # <<>>
    /\ getVersion = "1.1.0"
    /\ getPermissionMatrix = MatrixB

\* C3: when an invalid document is submitted to a loaded engine, every
\* canPerformSiteAction, canPerformGlobalAction and roleHasPermission call that
\* returned true before the load returns true after it.
C3_PassingChecksSurviveFailedLoad ==
    [][(FailedLoad /\ isLoaded) =>
        \A check \in Checks :
            /\ \A user \in Users, siteId \in Sites :
                canPerformSiteAction(cache, now, user, siteId, check.resource,
                                     check.action, check.subResource).value
                => canPerformSiteAction(cache, now, user, siteId, check.resource,
                                        check.action, check.subResource).value'
            /\ \A user \in Users :
                canPerformGlobalAction(cache, now, user, check.resource, check.action,
                                       check.subResource).value
                => canPerformGlobalAction(cache, now, user, check.resource,
                                          check.action, check.subResource).value'
            /\ \A role \in RoleNames :
                roleHasPermission(role, check.resource, check.action, check.subResource)
                => roleHasPermission(role, check.resource, check.action,
                                     check.subResource)']_vars

\* C4 as stated: on a loaded engine, for a user without super_admin assignment
\* whose first assignment for siteId has role R and a well-formed query,
\* canPerformSiteAction returns true exactly when the action is in the matrix's
\* action set for (R, resource[, subResource]).
C4_SiteCheckIsMatrixLookup ==
    isLoaded =>
        \A user \in Users, siteId \in Sites, check \in Checks :
            (~HoldsSuperAdmin(user) /\ HasAssignment(user, siteId) /\ WellFormedQuery(check))
            => (canPerformSiteAction(cache, now, user, siteId, check.resource,
                                     check.action, check.subResource).value
                <=> check.action \in MatrixActionSet(FirstAssignedRole(user, siteId), check))

\* C4 (amended): the same, for a query under whose key the cache holds no live
\* entry (an entry stored for the uid under earlier assignments is returned as
\* it is until the host clears it).
C4_UncachedSiteCheckIsMatrixLookup ==
    isLoaded =>
        \A user \in Users, siteId \in Sites, check \in Checks :
            (/\ ~HoldsSuperAdmin(user)
             /\ HasAssignment(user, siteId)
             /\ WellFormedQuery(check)
             /\ ~LiveSiteEntry(user, siteId, check))
            => (canPerformSiteAction(cache, now, user, siteId, check.resource,
                                     check.action, check.subResource).value
                <=> check.action \in MatrixActionSet(FirstAssignedRole(user, siteId), check))

\* the user whose first assignment was changed has just been denied what the
\* earlier assignment granted, by an engine with a cache, which now holds the
\* denial
C4_Witness ==
    /\ isLoaded
    /\ hasCache
    /\ permissionMatrix = MatrixA
    /\ ret.op = "canPerformSiteAction"
    /\ ret.args.user = ReassignedUser
    /\ ret.args.check = UsersCreate
    /\ ret.value = FALSE
    /\ "create" \in MatrixActionSet("admin", UsersCreate)
    /\ cache[generatePermissionKey("u1", "s1", "users", "create", "")].value = Bool(FALSE)

\* C5: while the engine has never been successfully loaded, the three checks
\* return false, the getAccessible* methods return the empty list,
\* getRolePermissions returns an empty structure, and bulkPermissionCheck
\* returns one result per check, each with allowed = false.
C5_NeverLoadedIsClosed ==
    NeverLoaded =>
        /\ \A user \in Users, check \in Checks :
            /\ ~canPerformGlobalAction(cache, now, user, check.resource, check.action,
                                       check.subResource).value
            /\ \A siteId \in Sites :
                ~canPerformSiteAction(cache, now, user, siteId, check.resource,
                                      check.action, check.subResource).value
        /\ \A role \in RoleNames :
            /\ getRolePermissions(role) = EmptyObject
            /\ \A check \in Checks :
                ~roleHasPermission(role, check.resource, check.action, check.subResource)
        /\ \A user \in Users, siteId \in Sites, action \in CheckActions :
            /\ getAccessibleResources(cache, now, user, siteId, action).value = <<>>
            /\ getAccessibleGroupSubResources(cache, now, user, siteId, action).value = <<>>
            /\ getAccessibleAdminSubResources(cache, now, user, siteId, action).value = <<>>
        /\ \A user \in Users, siteId \in Sites, checks \in Batches :
            LET results == bulkPermissionCheck(cache, now, user, siteId, checks).value IN
            /\ Len(results) = Len(checks)
            /\ \A i \in DOMAIN checks : results[i] = Result(checks[i], FALSE)

\* a batch of two checks was answered by an engine that was never loaded
C5_Witness ==
    /\ NeverLoaded
    /\ ret.op = "bulkPermissionCheck"
    /\ Len(ret.args.checks) = 2
    /\ Len(ret.value) = 2
    /\ \A i \in DOMAIN ret.value : ~ret.value[i].allowed

\* the queries on a nested resource that name no sub-resource or one that is
\* not among the resource's own
UngatedChecks ==
    {Check(resource, action, subResource) :
        resource \in NestedNames, action \in CheckActions,
        subResource \in {"", "schools", "admin", "tasks"}}
GatedChecks ==
    {check \in UngatedChecks : check.subResource \notin SubResourceNames(check.resource)}

\* C6: for the nested resources groups and admins, canPerformSiteAction,
\* canPerformGlobalAction and roleHasPermission return false when the
\* sub-resource is omitted or is not one of that resource's sub-resources, for
\* every user, role and loaded matrix.
C6_NestedNeedsOwnSubResource ==
    \A check \in GatedChecks :
        /\ \A user \in Users :
            /\ ~canPerformGlobalAction(cache, now, user, check.resource, check.action,
                                       check.subResource).value
            /\ \A siteId \in Sites :
                ~canPerformSiteAction(cache, now, user, siteId, check.resource,
                                      check.action, check.subResource).value
        /\ \A role \in RoleNames :
            ~roleHasPermission(role, check.resource, check.action, check.subResource)

\* an admin who may read groups.schools was just refused groups without a
\* sub-resource
C6_Witness ==
    /\ isLoaded
    /\ ret.op = "canPerformSiteAction"
    /\ ret.args.user = AdminUser
    /\ ret.args.check = GroupsRead
    /\ ret.value = FALSE
    /\ "read" \in MatrixActionSet("admin", GroupsReadSchools)

\* C7: for a user holding a super_admin assignment for any site,
\* canPerformSiteAction(user, s, ...) returns the boolean that
\* canPerformGlobalAction(user, ...) returns, for every non-empty siteId s,
\* sites without an assignment of the user included, whichever is called first.
C7_SuperAdminSiteEqualsGlobal ==
    \A user \in Users, siteId \in Sites \cup {"*"}, check \in Checks \cup UngatedChecks :
        HoldsSuperAdmin(user) =>
            LET site == canPerformSiteAction(cache, now, user, siteId, check.resource,
                                             check.action, check.subResource)
                global == canPerformGlobalAction(cache, now, user, check.resource,
                                                 check.action, check.subResource)
            IN /\ site.value = global.value
               /\ canPerformGlobalAction(site.cache, now, user, check.resource,
                                         check.action, check.subResource).value = site.value
               /\ canPerformSiteAction(global.cache, now, user, siteId, check.resource,
                                       check.action, check.subResource).value = global.value

\* the super admin was just granted an action at a site they hold no
\* assignment for
C7_Witness ==
    /\ isLoaded
    /\ ret.op = "canPerformSiteAction"
    /\ ret.args.user = SuperAdminUser
    /\ ~HasAssignment(SuperAdminUser, ret.args.siteId)
    /\ ret.value = TRUE
    /\ canPerformGlobalAction(cache, now, SuperAdminUser, ret.args.check.resource,
                              ret.args.check.action, ret.args.check.subResource).value

\* C8: canPerformGlobalAction returns false for every user without a
\* super_admin assignment, whatever the matrix grants to the user's roles and
\* whatever the cache holds.
C8_GlobalDeniedWithoutSuperAdmin ==
    \A user \in Users, check \in Checks \cup UngatedChecks :
        ~HoldsSuperAdmin(user) =>
            ~canPerformGlobalAction(cache, now, user, check.resource, check.action,
                                    check.subResource).value

\* a user without super_admin assignment was just refused a global action
\* while the cache holds a live grant under the global key of their uid
C8_Witness ==
    /\ isLoaded
    /\ ret.op = "canPerformGlobalAction"
    /\ ~HoldsSuperAdmin(ret.args.user)
    /\ ret.value = FALSE
    /\ LET key == generatePermissionKey(ret.args.user.uid, "*", ret.args.check.resource,
                                        ret.args.check.action, ret.args.check.subResource)
       IN /\ CacheHas(cache, key, now).found
          /\ cache[key].value = Bool(TRUE)

\* C9: on a loaded engine, after any earlier calls, bulkPermissionCheck
\* reports for each entry of the batch the boolean that canPerformSiteAction
\* returns for that entry.
C9_BulkEqualsIndividual ==
    [][(isLoaded /\ ret'.op = "bulkPermissionCheck") =>
        LET call == ret'.args IN
        \A i \in DOMAIN call.checks :
            /\ i \in DOMAIN ret'.value
            /\ ret'.value[i].allowed
               = canPerformSiteAction(cache, now, call.user, call.siteId,
                                      call.checks[i].resource, call.checks[i].action,
                                      call.checks[i].subResource).value]_vars

\* C10: every bulkPermissionCheck call, one answered from the batch entry of
\* the cache included, returns one result per supplied check, in the caller's
\* order, each carrying the resource, action and subResource of its check.
C10_BulkResultsMatchChecks ==
    [][ret'.op = "bulkPermissionCheck" =>
        /\ Len(ret'.value) = Len(ret'.args.checks)
        /\ \A i \in DOMAIN ret'.value :
            /\ ret'.value[i].resource = ret'.args.checks[i].resource
            /\ ret'.value[i].action = ret'.args.checks[i].action
            /\ ret'.value[i].subResource = ret'.args.checks[i].subResource]_vars

KeyChecks == Checks \cup {Check("groups", action, "classes") : action \in CheckActions}

Query(user, siteId, check) == [user |-> user, siteId |-> siteId, check |-> check]

SiteCheck(c, query) ==
    canPerformSiteAction(c, now, query.user, query.siteId, query.check.resource,
                         query.check.action, query.check.subResource)

\* the key the five components of a query are cached under
QueryKey(query) ==
    generatePermissionKey(query.user.uid, query.siteId, query.check.resource,
                          query.check.action, query.check.subResource)

\* how many of resource, action and subResource two checks differ in
CheckDistance(a, b) ==
    (IF a.resource # b.resource THEN 1 ELSE 0)
        + (IF a.action # b.action THEN 1 ELSE 0)
        + (IF a.subResource # b.subResource THEN 1 ELSE 0)

\* the checks of KeyChecks that pass parameter validation
WellFormedKeyChecks == {check \in KeyChecks : WellFormedQuery(check)}

\* the queries that pass parameter validation and differ from a query in
\* exactly one of user id, siteId, resource, action and subResource
OneComponentAway(query) ==
    LET sameUid == {user \in Users : user.uid = query.user.uid} IN
    IF query.check \notin WellFormedKeyChecks THEN {}
    ELSE {Query(user, query.siteId, query.check) : user \in Users \ sameUid}
            \cup {Query(user, siteId, query.check) :
                        user \in sameUid, siteId \in Sites \ {query.siteId}}
            \cup {Query(user, query.siteId, check) :
                        user \in sameUid,
                        check \in {c \in WellFormedKeyChecks :
                                        CheckDistance(c, query.check) = 1}}

\* the checks that are made first
CachedQueries ==
    {Query(user, "s1", check) : user \in Users, check \in {UsersCreate, GroupsReadSchools}}

\* C12 as stated: after a check has been cached, a check one key component
\* away from it that passes validation, and has no entry under its own
\* five-component key yet, adds exactly one cache entry
C12_OneComponentAwayAddsOneEntry ==
    (isLoaded /\ hasCache) =>
        \A query \in CachedQueries :
            LET first == SiteCheck(cache, query) IN
            \A other \in OneComponentAway(query) :
                QueryKey(other) \notin DOMAIN first.cache =>
                    Cardinality(DOMAIN SiteCheck(first.cache, other).cache)
                        = Cardinality(DOMAIN first.cache) + 1

\* C12 (amended): the same for a second check whose user holds no super_admin
\* assignment
C12_OneComponentAwayAddsOneEntryUnlessSuperAdmin ==
    (isLoaded /\ hasCache) =>
        \A query \in CachedQueries :
            LET first == SiteCheck(cache, query) IN
            \A other \in OneComponentAway(query) :
                (~HoldsSuperAdmin(other.user) /\ QueryKey(other) \notin DOMAIN first.cache) =>
                    LET second == SiteCheck(first.cache, other) IN
                    /\ DOMAIN second.cache = DOMAIN first.cache \cup {QueryKey(other)}
                    /\ Cardinality(DOMAIN second.cache)
                        = Cardinality(DOMAIN first.cache) + 1

\* the admin's check is cached and the same check for another uid has just
\* added the second entry
C12_Witness ==
    /\ isLoaded /\ hasCache
    /\ ret.op = "canPerformSiteAction"
    /\ ret.args = Query(ParticipantUser, "s1", UsersCreate)
    /\ DOMAIN cache = {QueryKey(Query(AdminUser, "s1", UsersCreate)),
                       QueryKey(Query(ParticipantUser, "s1", UsersCreate))}

\* a user whose uid is another user's uid followed by a hyphen and more
HyphenUser == User("u1-s1", <<UserRole("s1", "admin")>>)

IsolationUsers == {AdminUser, ParticipantUser, SuperAdminUser, HyphenUser}

BulkCheck(c, query, checks) == bulkPermissionCheck(c, now, query.user, query.siteId, checks)

\* C13: after individual and bulk checks have populated entries for two users
\* with distinct uids, clearUserCache(uidA) removes the entries of user A and
\* none of user B, whose next checks are answered from the cache, unchanged
C13_ClearUserCacheIsolatesUsers ==
    (isLoaded /\ hasCache) =>
        \A userA \in IsolationUsers, userB \in IsolationUsers :
            userA.uid # userB.uid =>
                \A check \in {UsersCreate, GroupsReadSchools} :
                    LET queryA == Query(userA, "s1", check)
                        queryB == Query(userB, "s1", check)
                        batch == <<GroupsCreateSchools>>
                        singleA == SiteCheck(cache, queryA)
                        bulkA == BulkCheck(singleA.cache, queryA, batch)
                        singleB == SiteCheck(bulkA.cache, queryB)
                        bulkB == BulkCheck(singleB.cache, queryB, batch)
                        cleared == clearUserCache(bulkB.cache, userA.uid)
                        nextSingleB == SiteCheck(cleared, queryB)
                        nextBulkB == BulkCheck(nextSingleB.cache, queryB, batch)
                    IN /\ \A key \in DOMAIN cleared : ~StartsWith(key, userA.uid \o "-")
                       /\ \A key \in DOMAIN bulkB.cache :
                            StartsWith(key, userB.uid \o "-") => key \in DOMAIN cleared
                       /\ nextSingleB.value = singleB.value
                       /\ nextBulkB.value = bulkB.value
                       /\ nextBulkB.cache = cleared

\* non-empty key components: uids and siteIds are free strings
KeyUids == {"u1", "u1-s1"}
KeySites == {"s1", "s1-s1"}
KeyTuples == KeyUids \X KeySites \X CheckResources \X CheckActions \X CheckSubResources

PermissionKeyOf(tuple) ==
    generatePermissionKey(tuple[1], tuple[2], tuple[3], tuple[4], tuple[5])

\* C14: generatePermissionKey is injective on its non-empty inputs: the key
\* returned for a tuple (userId, siteId, resource, action, subResource?) is the
\* key of no tuple that differs from it in a component
C14_PermissionKeyIsInjective ==
    ret.op = "generatePermissionKey" =>
        \A other \in KeyTuples :
            other # ret.args => PermissionKeyOf(other) # ret.value

\* the siteIds a caller passes, the string the global key uses among them
CallerSites == Sites \cup {"*"}

\* the user after a super_admin assignment has been added
Promoted(user) == User(user.uid, Append(user.roles, UserRole("s3", "super_admin")))

GlobalCheck(c, user, check) ==
    canPerformGlobalAction(c, now, user, check.resource, check.action, check.subResource)

\* C15: a site-scoped check and a global check for the same user, resource,
\* action and sub-resource share no cache entry, across a role change: what
\* canPerformSiteAction stores for a siteId the caller passed is not returned
\* by canPerformGlobalAction, and what canPerformGlobalAction stores is not
\* returned by a site-scoped check
C15_GlobalAndSiteEntriesAreSeparate ==
    (isLoaded /\ hasCache) =>
        \A user \in {AdminUser, ParticipantUser}, siteId \in CallerSites,
           check \in {UsersCreate, GroupsCreateSchools, GroupsReadSchools} :
            LET query == Query(user, siteId, check)
                site == SiteCheck(cache, query)
                global == GlobalCheck(cache, Promoted(user), check)
            IN /\ GlobalCheck(site.cache, Promoted(user), check).value = global.value
               /\ SiteCheck(global.cache, query).value = site.value

\* what the stored matrix and the user's assignments decide for a query that
\* passes validation: the super_admin row for a super admin, a denial without
\* an assignment for the site, the row of the first assignment for the site
\* otherwise
DecidedByAssignments(query) ==
    IF HoldsSuperAdmin(query.user)
    THEN query.check.action \in MatrixActionSet("super_admin", query.check)
    ELSE /\ HasAssignment(query.user, query.siteId)
         /\ query.check.action
                \in MatrixActionSet(FirstAssignedRole(query.user, query.siteId),
                                    query.check)

WellFormedQueries ==
    {Query(user, siteId, check) :
        user \in Users, siteId \in Sites, check \in WellFormedKeyChecks}

\* C16: a successful loadPermissions leaves the cache empty, and a check made
\* after it is decided by the newly loaded matrix, whatever was cached before
C16_SuccessfulLoadEmptiesCache ==
    (ret.op = "loadPermissions" /\ ret.value.success /\ hasCache) =>
        /\ cache = CacheClear
        /\ permissionMatrix = ret.args[1].fields.permissions
        /\ \A query \in WellFormedQueries :
                SiteCheck(cache, query).value = DecidedByAssignments(query)

\* the second document has just been loaded into an engine with a cache
C16_Witness ==
    /\ ret.op = "loadPermissions" /\ ret.value.success
    /\ ret.args[1] = ValidDocumentB
    /\ hasCache /\ isLoaded
    /\ permissionMatrix = MatrixB
    /\ cache = CacheClear

\* C17: after a user's assignments changed and clearUserCache(user.uid) was
\* called, the user's following canPerformSiteAction calls, at every site, are
\* decided by the current assignments and by no result cached before
C17_ClearedUserIsDecidedByCurrentAssignments ==
    (isLoaded /\ hasCache) =>
        \A user \in Users :
            LET cleared == clearUserCache(cache, user.uid)
                queries == {query \in WellFormedQueries :
                                query.user = user /\ query.check \in Checks}
            IN \A query \in queries :
                LET first == SiteCheck(cleared, query) IN
                /\ first.value = DecidedByAssignments(query)
                /\ \A next \in {other \in queries : other.siteId = query.siteId} :
                        SiteCheck(first.cache, next).value = DecidedByAssignments(next)

\* clearUserCache has just removed the entries of u1 and kept one of u2
C17_Witness ==
    /\ isLoaded /\ hasCache
    /\ ret.op = "clearUserCache" /\ ret.args.userId = "u1"
    /\ \A key \in DOMAIN cache : ~StartsWith(key, "u1-")
    /\ \E key \in DOMAIN cache : StartsWith(key, "u2-")

\* the arguments of the public methods with the missing ones among them: a
\* null or undefined user, "" for a missing string
CallUsers == Users \cup {Null, Undefined}
ArgumentSites == Sites \cup {""}
ArgumentChecks ==
    Checks \cup {Check("", "read", ""), Check("users", "", ""), Check("groups", "", "schools")}

\* an argument the claim calls missing or invalid
RefusedCheck(check) ==
    \/ check.resource = "" \/ check.action = ""
    \/ check.resource \in NestedNames
        /\ check.subResource \notin SubResourceNames(check.resource)

\* C18: called before a successful load, or with a missing user, site, resource
\* or action, or a missing or invalid sub-resource on a nested resource, no
\* public check method throws and each returns its closed value: false, the
\* empty list, or results that are all false
C18_ChecksNeverThrow ==
    /\ \A user \in CallUsers, siteId \in ArgumentSites, check \in ArgumentChecks :
        /\ (~isLoaded \/ Falsy(user) \/ siteId = "" \/ RefusedCheck(check)) =>
            /\ ~SiteCheck(cache, Query(user, siteId, check)).value
            /\ ~bulkPermissionCheckThrows(user)
            /\ BulkCheck(cache, Query(user, siteId, check), <<check>>).value
                    = <<Result(check, FALSE)>>
        /\ (~isLoaded \/ Falsy(user) \/ RefusedCheck(check)) =>
            ~GlobalCheck(cache, user, check).value
        /\ (~isLoaded \/ Falsy(user) \/ siteId = "" \/ check.action = "") =>
            /\ getAccessibleResources(cache, now, user, siteId, check.action).value = <<>>
            /\ getAccessibleGroupSubResources(cache, now, user, siteId,
                                              check.action).value = <<>>
            /\ getAccessibleAdminSubResources(cache, now, user, siteId,
                                              check.action).value = <<>>
    /\ \A role \in RoleNames \cup {""}, check \in ArgumentChecks :
        (~isLoaded \/ role = "" \/ RefusedCheck(check)) =>
            ~roleHasPermission(role, check.resource, check.action, check.subResource)

\* C19: the matrix, the version and the loaded flag change together: whenever
\* a call changes one of them, it is a successful load and the state it leaves,
\* which is what the next check of any caller sees, holds all three new
\* values; after every other call a check sees all three old values
C19_MatrixVersionAndFlagChangeTogether ==
    [][(permissionMatrix' # permissionMatrix \/ version' # version
            \/ isLoaded' # isLoaded) =>
            /\ ret'.op = "loadPermissions"
            /\ ret'.value.success
            /\ isLoaded'
            /\ permissionMatrix' = ret'.args[1].fields.permissions
            /\ version' = ret'.args[1].fields.version]_vars

\* the order participant < research_assistant < admin < site_admin < super_admin
RoleRank ==
    [participant |-> 0, research_assistant |-> 1, admin |-> 2, site_admin |-> 3,
     super_admin |-> 4]

\* the five roles and strings that are none of them
HierarchyArguments == ALL_ROLES \cup {"invalid_role", "", "Admin"}

MeetsMinimum(userRole, requiredRole) ==
    /\ userRole \in DOMAIN RoleRank
    /\ requiredRole \in DOMAIN RoleRank
    /\ RoleRank[userRole] >= RoleRank[requiredRole]

\* C20: hasMinimumRole(R1, R2) is index(R1) >= index(R2) in the order
\* participant < research_assistant < admin < site_admin < super_admin, and
\* false when either argument is none of the five roles
C20_HasMinimumRoleIsRankOrder ==
    ret.op = "hasMinimumRole" =>
        /\ ret.value = MeetsMinimum(ret.args[1], ret.args[2])
        /\ \A userRole \in HierarchyArguments, requiredRole \in HierarchyArguments :
                hasMinimumRole(userRole, requiredRole)
                    = MeetsMinimum(userRole, requiredRole)

\* an equal pair has just been compared and accepted
C20_Witness ==
    /\ ret.op = "hasMinimumRole"
    /\ ret.args = <<"site_admin", "site_admin">>
    /\ ret.value = TRUE

\* the positions of the assignments whose role stands at or above minRole
QualifyingAssignments(user, minRole) ==
    {i \in DOMAIN user.roles :
        /\ user.roles[i].role \in DOMAIN RoleRank
        /\ RoleRank[user.roles[i].role] >= RoleRank[minRole]}

\* C21: getSitesWithMinRole(user, minRole) is <<"*">> for a super admin; for
\* every other user it is the empty list when minRole is no role, and
\* otherwise the siteIds of the assignments whose role index is at least
\* minRole's, in assignment order
C21_SitesWithMinRoleFilterAssignments ==
    ret.op = "getSitesWithMinRole" =>
        LET user == ret.args.user
            minRole == ret.args.minRole
        IN IF HoldsSuperAdmin(user) THEN ret.value = <<"*">>
           ELSE IF minRole \notin DOMAIN RoleRank THEN ret.value = <<>>
           ELSE LET qualifying == QualifyingAssignments(user, minRole) IN
                /\ Len(ret.value) = Cardinality(qualifying)
                /\ \A i \in qualifying :
                        ret.value[Cardinality({j \in qualifying : j <= i})]
                            = user.roles[i].siteId

\* the user with three sites was asked for admin and up: s1 and s3, in order
C21_Witness ==
    /\ ret.op = "getSitesWithMinRole"
    /\ ret.args.user = MultiSiteUser
    /\ ret.args.minRole = "admin"
    /\ ret.value = <<"s1", "s3">>

\* how many ticks the properties let pass after a set
MaxElapsed == 3

RECURSIVE ElapseBy(_, _)
\* the entries as seen some ticks later
ElapseBy(c, ticks) == IF ticks = 0 THEN c ELSE ElapseBy(Elapse(c), ticks - 1)

TtlOf(options) == IF options = <<>> THEN DefaultTtl ELSE options[1]

\* get(key) some ticks after set(key, value, options) at the present time:
\* the value and an untouched map up to and including ttl ticks, afterwards
\* absent and the map without the key, the other entries untouched
LivesUntilExpiry(c, key, value, options, elapsed) ==
    LET later == ElapseBy(CacheSetWithOptions(c, key, value, options, now), elapsed)
        got == CacheGet(later, key, now)
    IN IF elapsed <= TtlOf(options)
       THEN got.value = value /\ got.cache = later
       ELSE /\ got.value = Null
            /\ DOMAIN got.cache = DOMAIN later \ {key}
            /\ \A other \in DOMAIN got.cache : got.cache[other] = later[other]

\* C22: an entry stored by set(key, value, ttl?) at time t is returned by
\* get(key) at every time up to and including t + (ttl ?? defaultTtl), and
\* later get(key) returns absent and removes the entry; a later set on the
\* key replaces value and expiry
C22_EntryLivesUntilExpiry ==
    \A key \in CacheKeys \ {""}, value \in CacheValues, options \in CacheOptions,
       elapsed \in 0..MaxElapsed :
        /\ LivesUntilExpiry(cache, key, value, options, elapsed)
        /\ \A again \in CacheValues, optionsAgain \in CacheOptions :
            LET later == ElapseBy(CacheSetWithOptions(cache, key, value, options, now),
                                  elapsed)
            IN /\ CacheSetWithOptions(later, key, again, optionsAgain, now)[key]
                    = [value |-> again, expiresAt |-> now + TtlOf(optionsAgain)]
               /\ LivesUntilExpiry(later, key, again, optionsAgain, elapsed)

\* a stored value has just been read at the last tick of its life
C22_Witness ==
    /\ ret.op = "get" /\ ret.args.key = "u1-a"
    /\ ret.value = Bool(TRUE)
    /\ "u1-a" \in DOMAIN cache
    /\ cache["u1-a"].expiresAt = now

\* what may follow userId and a hyphen in the keys at hand
KeyRests == {"", "a", "a-b"}

\* the key is userId itself or userId, a hyphen and more
BelongsTo(key, userId) ==
    key = userId \/ \E rest \in KeyRests : key = userId \o "-" \o rest

-----------------------------------------------------------------------------
\* C24: canPerformSiteAction and canPerformGlobalAction hand a decision event
\* to the sink exactly when the sink answers isEnabled() true and the logging
\* mode is not off, and then exactly one event per call; otherwise the
\* evaluation computes no (decision, reason) detail at all. A constructor
\* call without a logging mode leaves the mode off.
LoggingActive == sinkEnabled /\ loggingMode # "off"

EventsAndDetailFollowLogging(evaluation, outcome) ==
    IF LoggingActive
    THEN Len(outcome.events) = 1 /\ ~Falsy(evaluation.detail)
    ELSE outcome.events = <<>> /\ evaluation.detail = Undefined

C24_EventIffSinkEnabledAndModeOn ==
    /\ \A user \in LoggingUsers, check \in LoggingChecks :
          /\ EventsAndDetailFollowLogging(
                globalActionEvaluation(cache, now, user, check.resource, check.action,
                                       check.subResource),
                canPerformGlobalAction(cache, now, user, check.resource, check.action,
                                       check.subResource))
          /\ \A siteId \in LoggingSites :
                EventsAndDetailFollowLogging(
                    siteActionEvaluation(cache, now, user, siteId, check.resource,
                                         check.action, check.subResource),
                    canPerformSiteAction(cache, now, user, siteId, check.resource,
                                         check.action, check.subResource))
    /\ ret.op \in {"canPerformSiteAction", "canPerformGlobalAction"}
          => Len(ret.events) = (IF LoggingActive THEN 1 ELSE 0)
    /\ ret.op = "constructor"
          /\ (Falsy(ret.args.loggingConfig)
                \/ "mode" \notin DOMAIN ret.args.loggingConfig.fields)
          => loggingMode = "off"

\* a check made with logging active handed one event to the sink, and the
\* engine was constructed with a cache
C24_Witness ==
    /\ ret.op = "canPerformSiteAction"
    /\ LoggingActive
    /\ isLoaded
    /\ hasCache
    /\ Len(ret.events) = 1


-----------------------------------------------------------------------------
\* C25: with a sink whose emit throws, canPerformSiteAction and
\* canPerformGlobalAction do not throw, and they return the boolean of their
\* evaluation, which is what they return with a sink that does not throw.
C25_ThrowingSinkDoesNotChangeTheAnswer ==
    sinkThrows =>
        \A user \in LoggingUsers, check \in LoggingChecks :
            /\ ~canPerformGlobalActionThrows(cache, now, user, check.resource,
                                             check.action, check.subResource)
            /\ canPerformGlobalAction(cache, now, user, check.resource, check.action,
                                      check.subResource).value
                 = globalActionEvaluation(cache, now, user, check.resource,
                                          check.action, check.subResource).allowed
            /\ \A siteId \in LoggingSites :
                /\ ~canPerformSiteActionThrows(cache, now, user, siteId, check.resource,
                                               check.action, check.subResource)
                /\ canPerformSiteAction(cache, now, user, siteId, check.resource,
                                        check.action, check.subResource).value
                     = siteActionEvaluation(cache, now, user, siteId, check.resource,
                                            check.action, check.subResource).allowed

\* a check whose event went to a sink that throws came back allowed
C25_Witness ==
    /\ ret.op = "canPerformSiteAction"
    /\ sinkThrows
    /\ Len(ret.events) = 1
    /\ ret.value = TRUE


-----------------------------------------------------------------------------
\* a query on groups or admins without a sub-resource or with one that is
\* not a sub-resource of that resource
OmitsOrMistakesSubResource(check) ==
    /\ check.resource \in {RESOURCES.GROUPS, RESOURCES.ADMINS}
    /\ check.subResource \notin SubResourceNames(check.resource)

\* C27: with logging active, a query on a nested resource that omits the
\* sub-resource or supplies one invalid for the resource is decided
\* indeterminate, by canPerformSiteAction and by canPerformGlobalAction, for
\* every user.
C27_NestedQueryWithoutValidSubResourceIsIndeterminate ==
    LoggingActive =>
        \A user \in LoggingUsers, check \in LoggingChecks :
            OmitsOrMistakesSubResource(check) =>
                /\ globalActionEvaluation(cache, now, user, check.resource, check.action,
                                          check.subResource).detail.decision
                     = "indeterminate"
                /\ \A siteId \in LoggingSites :
                    siteActionEvaluation(cache, now, user, siteId, check.resource,
                                         check.action, check.subResource).detail.decision
                      = "indeterminate"


-----------------------------------------------------------------------------
\* the (decision, reason) the list of conditions gives a query, the first
\* condition that holds deciding
ListedDetail(user, siteId, check) ==
    IF ~isLoaded THEN Detail("indeterminate", "NOT_LOADED")
    ELSE IF \/ user.kind \in {"null", "undefined"}
            \/ siteId = "" \/ check.resource = "" \/ check.action = ""
    THEN Detail("indeterminate", "MISSING_PARAMS")
    ELSE IF check.resource \in NestedNames /\ check.subResource = ""
    THEN Detail("indeterminate", "REQUIRES_SUBRESOURCE")
    ELSE IF check.subResource # ""
            /\ check.subResource \notin SubResourceNames(check.resource)
    THEN Detail("indeterminate", "INVALID_SUBRESOURCE")
    ELSE IF ~HoldsSuperAdmin(user) /\ ~HasAssignment(user, siteId)
    THEN Detail("deny", "NO_ROLE")
    ELSE IF check.action
              \notin MatrixActionSet(IF HoldsSuperAdmin(user) THEN "super_admin"
                                     ELSE FirstAssignedRole(user, siteId), check)
    THEN Detail("deny", "NOT_ALLOWED")
    ELSE Detail("allow", "ALLOWED")

\* the conditions of the list that make a query indeterminate
IndeterminateByList(user, siteId, check) ==
    ListedDetail(user, siteId, check).decision = "indeterminate"

\* the site evaluations alone follow the list
SiteEvaluationsFollowTheList ==
    \A user \in LoggingUsers, siteId \in LoggingSites, check \in LoggingChecks :
        LET evaluation == siteActionEvaluation(cache, now, user, siteId, check.resource,
                                               check.action, check.subResource)
        IN /\ evaluation.detail = ListedDetail(user, siteId, check)
           /\ evaluation.allowed <=> evaluation.detail = Detail("allow", "ALLOWED")

\* C26: with logging active every evaluation yields the (decision, reason) of
\* the first condition that holds among: engine unloaded (indeterminate,
\* NOT_LOADED), a missing parameter (indeterminate, MISSING_PARAMS), a missing
\* sub-resource (indeterminate, REQUIRES_SUBRESOURCE), an invalid sub-resource
\* (indeterminate, INVALID_SUBRESOURCE), no role at the site (deny, NO_ROLE),
\* action not in the role's set (deny, NOT_ALLOWED); and allowed is true
\* exactly with (allow, ALLOWED). For a global evaluation, which has no site,
\* the formula asks the list's answer only where the list says indeterminate.
C26_DecisionAndReasonFollowTheList ==
    LoggingActive =>
        /\ SiteEvaluationsFollowTheList
        /\ \A user \in LoggingUsers, check \in LoggingChecks :
            LET evaluation == globalActionEvaluation(cache, now, user, check.resource,
                                                     check.action, check.subResource)
            IN /\ evaluation.allowed <=> evaluation.detail = Detail("allow", "ALLOWED")
               /\ IndeterminateByList(user, "*", check)
                    => evaluation.detail = ListedDetail(user, "*", check)


-----------------------------------------------------------------------------
\* C28: an assignment into the value getPermissionMatrix() or
\* getRolePermissions(role) returned leaves the stored matrix as it was:
\* after it every check and every getPermissionMatrix() and
\* getRolePermissions(role) returns what it returned before it.
C28_MutatingReturnedValueLeavesMatrix ==
    [][ret'.op = "mutate" =>
        /\ permissionMatrix' = permissionMatrix
        /\ getPermissionMatrix' = getPermissionMatrix
        /\ \A role \in ALL_ROLES \cup {"invalid_role"} :
                getRolePermissions(role)' = getRolePermissions(role)
        /\ \A role \in ALL_ROLES, check \in Checks :
                roleHasPermission(role, check.resource, check.action, check.subResource)'
                  = roleHasPermission(role, check.resource, check.action,
                                      check.subResource)
        /\ \A user \in Users, siteId \in Sites, check \in Checks :
                canPerformSiteAction(cache, now, user, siteId, check.resource,
                                     check.action, check.subResource)'.value
                  = canPerformSiteAction(cache, now, user, siteId, check.resource,
                                         check.action, check.subResource).value]_vars

\* the host emptied an action list of the loaded matrix it had been handed,
\* and the list of the stored matrix is not empty
C28_Witness ==
    /\ ret.op = "mutate"
    /\ isLoaded
    /\ ret.args.path = <<"admin", "groups", "sites">>
    /\ ret.value # ret.args.returned
    /\ At(ret.value, ret.args.path) = Arr({})
    /\ At(permissionMatrix, ret.args.path) # Arr({})


-----------------------------------------------------------------------------
\* the properties among permissions, version and updatedAt that an object
\* lacks (a property holding an empty value counts as lacking)
MissingProperties(document) ==
    {name \in DocumentProperties :
        \/ name \notin DOMAIN document.fields
        \/ name = "permissions" /\ Falsy(document.fields[name])
        \/ name # "permissions" /\ document.fields[name] = ""}

\* a permissions property that is there and is no object
MalformedPermissions(document) ==
    /\ "permissions" \notin MissingProperties(document)
    /\ document.fields.permissions.kind \notin {"object", "array"}

-----------------------------------------------------------------------------
\* whether a string holds another one
Contains(s, part) ==
    \E i \in 1..(Len(s) - Len(part) + 1) : SubSeq(s, i, i + Len(part) - 1) = part

\* the actions of an entry of a role: of its array, or of the arrays of its
\* sub-resources
ActionsOf(entry) ==
    IF entry.kind = "array" THEN entry.items
    ELSE IF entry.kind = "object"
    THEN UNION {IF entry.fields[sub].kind = "array" THEN entry.fields[sub].items ELSE {}
                : sub \in DOMAIN entry.fields}
    ELSE {}

\* every role, resource and action of a matrix belongs to the enumerations
KeysInClosedSets(matrix) ==
    /\ matrix.kind = "object"
    /\ \A role \in DOMAIN matrix.fields :
        /\ role \in ALL_ROLES
        /\ matrix.fields[role].kind = "object" =>
            \A resource \in DOMAIN matrix.fields[role].fields :
                /\ resource \in ALL_RESOURCES
                /\ ActionsOf(matrix.fields[role].fields[resource]) \subseteq ALL_ACTIONS

\* an object with the three properties whose permissions is an object
HasTheThreeProperties(document) ==
    /\ document.kind = "object"
    /\ MissingProperties(document) = {}
    /\ ~MalformedPermissions(document)

-----------------------------------------------------------------------------
\* the entries of c that have expired at time t (now > expiresAt)
ExpiredKeys(c, t) == {key \in DOMAIN c : t > c[key].expiresAt}

\* C31: the periodic sweep interleaved in any order with get, has, set, clear
\* and clearUser on the same keys never removes an entry whose expiresAt is
\* still in the future, get and has never report an entry after its expiry,
\* and after the sweep every entry with now > expiresAt at sweep time is gone
C31_SweepRemovesExactlyTheExpired ==
    [][/\ ret'.op = "cleanupExpiredEntries" =>
            /\ DOMAIN cache' = DOMAIN cache \ ExpiredKeys(cache, now)
            /\ \A key \in DOMAIN cache' : cache'[key] = cache[key]
       /\ ret'.op = "get" /\ ret'.value # Null =>
            /\ ret'.args.key \in DOMAIN cache \ ExpiredKeys(cache, now)
            /\ ret'.value = cache[ret'.args.key].value
       /\ ret'.op = "has" =>
            ret'.value = Bool(ret'.args.key \in DOMAIN cache \ ExpiredKeys(cache, now))
      ]_vars

\* a sweep has just run with one entry expiring at this instant kept, after
\* other entries had been stored
C31_Witness ==
    /\ ret.op = "cleanupExpiredEntries"
    /\ DOMAIN cache = {"u1-a"}
    /\ cache["u1-a"].expiresAt = now

-----------------------------------------------------------------------------
\* C32: while the cache has not been destroyed and the sweep timer keeps
\* firing, every entry that has expired is eventually removed from the map;
\* destroy() leaves the map empty and the timer cleared, no sweep runs and no
\* timer is started after it, and a second destroy() changes nothing
C32_SweepEventuallyRemovesAndDestroyStops ==
    /\ \A key \in TimerKeys :
            (cleanupInterval /\ key \in ExpiredKeys(cache, now))
                ~> (~cleanupInterval \/ key \notin ExpiredKeys(cache, now))
    /\ [][/\ ret'.op = "destroy" => cache' = CacheClear /\ ~cleanupInterval'
          /\ ~cleanupInterval =>
                ~cleanupInterval' /\ ret'.op # "cleanupExpiredEntries"
          /\ ret.op = "destroy" /\ ret'.op = "destroy" => UNCHANGED vars
         ]_vars

\* the cache has been destroyed after entries had been stored and swept
C32_Witness ==
    /\ ret.op = "destroy"
    /\ ~cleanupInterval
    /\ cache = CacheClear

-----------------------------------------------------------------------------
\* what canPerformSiteAction returns for a query on an engine whose logging is
\* active or not, and the cache it leaves
SiteDecision(c, query, active) ==
    evaluateSiteActionDetailed(c, now, query.user, query.siteId, query.check.resource,
                               query.check.action, query.check.subResource, active)

\* C33: for the same sequence of loads, checks, user role changes and cache
\* clears, an engine with logging active returns from every check the same
\* boolean as an engine with logging off.  Directly after a load or a cache
\* clear the two engines hold the same matrix and the same empty cache; two
\* checks follow, the second one possibly after the user's roles changed
C33_LoggingChangesNoDecision ==
    hasCache /\ cache = CacheClear =>
        \A user \in Users, changed \in Users, check \in Checks :
            user.uid = changed.uid =>
                LET first == Query(user, "s1", check)
                    second == Query(changed, "s1", check)
                    off == SiteDecision(cache, first, FALSE)
                    on == SiteDecision(cache, first, TRUE)
                IN /\ off.allowed = on.allowed
                   /\ SiteDecision(off.cache, second, FALSE).allowed
                        = SiteDecision(on.cache, second, TRUE).allowed

-----------------------------------------------------------------------------
\* C34: a cache-backed check that finds its key present returns the stored
\* value at every timing of the call relative to the entry's expiry: a site
\* check is not answered false for an action the matrix allows and the entry
\* records as allowed, and a batch whose entry holds one result per check is
\* not answered with fewer results than checks, when the clock moves between
\* the has() test and the get() read
C34_PresentKeyAnswersStoredValue ==
    (isLoaded /\ hasCache) =>
        \A lag \in Lags, user \in Users, siteId \in StepSites :
            /\ \A check \in Checks :
                    LET query == Query(user, siteId, check)
                        late == evaluateSiteActionDetailedLate(
                                    cache, now, lag, user, siteId, check.resource,
                                    check.action, check.subResource, FALSE)
                    IN (/\ ~HoldsSuperAdmin(user)
                        /\ LiveSiteEntry(user, siteId, check)
                        /\ cache[QueryKey(query)].value = Bool(TRUE)
                        /\ DecidedByAssignments(query))
                            => late.allowed
            /\ \A checks \in Batches :
                    LET cacheKey == generateBulkPermissionKey(
                                        user.uid, siteId, generateBulkCheckHash(checks))
                        late == bulkPermissionCheckLate(cache, now, lag, user, siteId, checks)
                    IN (/\ CacheHas(cache, cacheKey, now).found
                        /\ Len(cache[cacheKey].value.items) = Len(checks))
                            => Len(late.value) = Len(checks)

-----------------------------------------------------------------------------
\* how often a check occurs in a batch
Occurrences(checks, check) == Cardinality({i \in DOMAIN checks : checks[i] = check})

EqualAsMultisets(checksA, checksB) ==
    \A check \in Checks : Occurrences(checksA, check) = Occurrences(checksB, check)

BatchKey(user, siteId, checks) ==
    generateBulkPermissionKey(user.uid, siteId, generateBulkCheckHash(checks))

\* C35: two bulkPermissionCheck batches for the same user and site that are
\* not equal as multisets of (resource, subResource, action) never share a
\* batch cache entry: the second batch is not answered with the result list
\* the first batch stored
C35_DifferentBatchesShareNoEntry ==
    (isLoaded /\ hasCache) =>
        \A user \in StepBulkUsers, siteId \in StepSites :
            \A checksA \in Batches, checksB \in Batches :
                ~EqualAsMultisets(checksA, checksB) =>
                    LET first == bulkPermissionCheck(CacheClear, now, user, siteId, checksA)
                        second == bulkPermissionCheck(first.cache, now, user, siteId, checksB)
                        fresh == bulkPermissionCheck(CacheClear, now, user, siteId, checksB)
                    IN /\ BatchKey(user, siteId, checksA) # BatchKey(user, siteId, checksB)
                       /\ second.value = fresh.value

-----------------------------------------------------------------------------
\* C36: when two PermissionService instances share one CacheService and hold
\* different loaded matrices, every check on either instance returns the
\* decision its own matrix gives for the user's role, in any interleaving of
\* their loads and checks
C36_EachInstanceAnswersFromItsOwnMatrix ==
    (ret.op = "canPerformSiteAction" /\ isLoaded) =>
        ret.value = DecidedByAssignments(Query(ret.args.user, ret.args.siteId, ret.args.check))

-----------------------------------------------------------------------------
\* C37: for every user who is no super admin, users with several assignments
\* for the same siteId included, a siteId is in getSitesWithMinRole(user,
\* minRole) if and only if getUserSiteRole(user, siteId) is a role that
\* hasMinimumRole accepts for minRole
C37_SitesWithMinRoleAgreeWithSiteRole ==
    (ret.op = "getSitesWithMinRole" /\ ~HoldsSuperAdmin(ret.args.user)) =>
        \A siteId \in Sites :
            LET userRole == getUserSiteRole(ret.args.user, siteId) IN
            (\E i \in DOMAIN ret.value : ret.value[i] = siteId)
                <=> (userRole # "" /\ hasMinimumRole(userRole, ret.args.minRole))

-----------------------------------------------------------------------------
\* C38: after a successful loadPermissions(document), an assignment into the
\* caller's document object (its permissions matrix or its action lists)
\* changes no later check result and not the value of getPermissionMatrix()
C38_MutatingDocumentLeavesMatrix ==
    [][ret'.op = "mutateDocument" =>
        /\ getPermissionMatrix' = getPermissionMatrix
        /\ \A role \in ALL_ROLES, check \in Checks :
                roleHasPermission(role, check.resource, check.action, check.subResource)'
                  = roleHasPermission(role, check.resource, check.action,
                                      check.subResource)
        /\ \A user \in Users, siteId \in Sites, check \in Checks :
                canPerformSiteAction(cache, now, user, siteId, check.resource,
                                     check.action, check.subResource)'.value
                  = canPerformSiteAction(cache, now, user, siteId, check.resource,
                                         check.action, check.subResource).value]_vars

-----------------------------------------------------------------------------
-----------------------------------------------------------------------------
\* the sub-resources a caller may supply: those of groups, those of admins,
\* and a name that is no sub-resource at all
SuppliedSubResources ==
    Range(ALL_GROUP_SUB_RESOURCES) \cup Range(ALL_ADMIN_SUB_RESOURCES) \cup {"anything"}

FlatWithSubResource(check) ==
    check.resource \in FlatNames /\ check.subResource # ""

\* C40: a check on a flat resource (assignments, users, tasks) that supplies
\* any sub-resource returns false in canPerformSiteAction,
\* canPerformGlobalAction and roleHasPermission, whatever the role's action
\* set for that resource holds, and leaves the cache as it was
C40_FlatResourceWithSubResourceIsRefused ==
    /\ \A resource \in FlatNames, action \in ALL_ACTIONS, subResource \in SuppliedSubResources :
        /\ \A user \in Users \cup {Null}, siteId \in Sites \cup {""} :
            LET onSite == canPerformSiteAction(cache, now, user, siteId, resource, action,
                                               subResource)
                global == canPerformGlobalAction(cache, now, user, resource, action,
                                                 subResource)
            IN /\ onSite.value = FALSE /\ onSite.cache = cache
               /\ global.value = FALSE /\ global.cache = cache
        /\ \A role \in ALL_ROLES :
            roleHasPermission(role, resource, action, subResource) = FALSE
    /\ (/\ ret.op \in {"canPerformSiteAction", "canPerformGlobalAction", "roleHasPermission"}
        /\ FlatWithSubResource(ret.args.check))
            => ret.value = FALSE

\* an admin, whose row allows users:create, asked for users:create with the
\* sub-resource schools on a loaded engine with a cache: refused, nothing cached
C40_Witness ==
    /\ isLoaded /\ hasCache
    /\ ret.op = "canPerformSiteAction"
    /\ ret.args.user = AdminUser
    /\ ret.args.check = Check("users", "create", "schools")
    /\ "create" \in MatrixActionSet("admin", Check("users", "create", ""))
    /\ ret.value = FALSE
    /\ cache = CacheClear

====
